---- MODULE Spec2Model ----
(***************************************************************************)
(* madseq: MAD-X sequence parser / slicing transformer.                    *)
(*                                                                         *)
(* The module models the element model (madseq/types.py), the slicing      *)
(* rules and the sequence transformation (madseq/transform.py) and the     *)
(* document pass (madseq/document.py).                                     *)
(*                                                                         *)
(* Numbers are decimal floating point values c * 10^e, kept normalised     *)
(* (c has no trailing zero), and every arithmetic operation rounds its     *)
(* exact result half-even to DecPrec significant digits, as Python's       *)
(* decimal context does (the context's precision is 28 digits; DecPrec     *)
(* scales it down).                                                        *)
(*                                                                         *)
(* Objects live in a heap (a sequence of element records); an element's    *)
(* base is the heap index of another element, 0 for None.  Argument maps   *)
(* are functions from lower-cased keys (dicti/odicti normalise the case    *)
(* of their keys) to values; the order of the keys is not modelled.        *)
(***************************************************************************)
EXTENDS Integers, Sequences, FiniteSets, TLC

VARIABLES
    heap,       \* the element objects: Seq of [name, type, args, base]
    selectors,  \* the slicing definition handed to SequenceTransform
    rules,      \* SequenceTransform._transforms
    defs,       \* Document.transform's defs table: lower-cased name -> heap index
    doc,        \* Document._nodes, the input nodes
    out,        \* the nodes of the transformed document
    ni,         \* index of the next top-level node
    pc,         \* position of the pass
    head,       \* heap index of the copied sequence head
    refer,      \* offset multiplier of the sequence in transformation
    k,          \* index of the next body node
    position,   \* running position inside the sequence
    templates,  \* template elements collected for the sequence
    elements,   \* output nodes collected for the sequence
    calls,      \* record of every ElementTransform.slice call made
    arg,        \* inputs of a directly applied function
    res,        \* result of a directly applied function
    err         \* the exception that ended the pass, "none" otherwise

vars == <<heap, selectors, rules, defs, doc, out, ni, pc, head, refer, k,
          position, templates, elements, calls, arg, res, err>>

----------------------------------------------------------------------------
(* Bounds of the model.                                                    *)

\* significant digits of the decimal context
DecPrec == 3
\* largest fixed slice count / density a selector carries
MaxSlice == 3
\* number of body nodes of a sequence
MaxBody == 2
\* number of caller-supplied rules
MaxRules == 2

----------------------------------------------------------------------------
(* Decimal arithmetic.                                                     *)

RECURSIVE Pow10(_)
Pow10(n) == IF n <= 0 THEN 1 ELSE 10 * Pow10(n - 1)

RECURSIVE NDigits(_)
NDigits(n) == IF n < 10 THEN 1 ELSE 1 + NDigits(n \div 10)

Abs(x) == IF x < 0 THEN -x ELSE x

Sgn(x) == IF x < 0 THEN -1 ELSE 1

RECURSIVE Norm(_, _)
Norm(c, e) ==
    IF c = 0 THEN [c |-> 0, e |-> 0]
    ELSE IF c % 10 = 0 THEN Norm(c \div 10, e + 1)
    ELSE [c |-> c, e |-> e]

\* num/den * 10^e with num >= den * 10^DecPrec: the quotient has more than
\* DecPrec digits; the digits beyond DecPrec are rounded half-even.
RoundQuot(sg, num, den, e) ==
    LET q    == num \div den
        r    == num % den
        d    == NDigits(q) - DecPrec
        keep == q \div Pow10(d)
        rem  == q % Pow10(d)
        half == 5 * Pow10(d - 1)
        up   == \/ rem > half
                \/ rem = half /\ r > 0
                \/ rem = half /\ r = 0 /\ keep % 2 = 1
    IN  [val |-> Norm(sg * (keep + (IF up THEN 1 ELSE 0)), e + d),
         inexact |-> (rem # 0 \/ r # 0)]

RECURSIVE RoundRat(_, _, _, _)
RoundRat(sg, num, den, e) ==
    IF num = 0 THEN [val |-> [c |-> 0, e |-> 0], inexact |-> FALSE]
    ELSE IF num < den * Pow10(DecPrec) THEN RoundRat(sg, num * 10, den, e - 1)
    ELSE RoundQuot(sg, num, den, e)

Dec(c, e) == Norm(c, e)

Zero == Dec(0, 0)

One == Dec(1, 0)

Half == Dec(5, -1)

DNeg(a) == [c |-> -a.c, e |-> a.e]

AddR(a, b) ==
    LET m == IF a.e < b.e THEN a.e ELSE b.e
        s == a.c * Pow10(a.e - m) + b.c * Pow10(b.e - m)
    IN  RoundRat(Sgn(s), Abs(s), 1, m)

MulR(a, b) == RoundRat(Sgn(a.c) * Sgn(b.c), Abs(a.c) * Abs(b.c), 1, a.e + b.e)

\* b # 0
DivR(a, b) ==
    LET m == IF a.e < b.e THEN a.e ELSE b.e
    IN  RoundRat(Sgn(a.c) * Sgn(b.c), Abs(a.c) * Pow10(a.e - m),
                 Abs(b.c) * Pow10(b.e - m), 0)

DAdd(a, b) == AddR(a, b).val

DSub(a, b) == AddR(a, DNeg(b)).val

DMul(a, b) == MulR(a, b).val

DDiv(a, b) == DivR(a, b).val

DLess(a, b) ==
    LET m == IF a.e < b.e THEN a.e ELSE b.e
    IN  a.c * Pow10(a.e - m) < b.c * Pow10(b.e - m)

\* int(ceil(abs(a)))
CeilAbs(a) ==
    LET n == Abs(a.c)
    IN  IF a.e >= 0 THEN n * Pow10(a.e)
        ELSE (n + Pow10(-a.e) - 1) \div Pow10(-a.e)

----------------------------------------------------------------------------
(* Strings, values, elements.                                              *)

\* Python's None, for an absent name, type or base
None == "<None>"

\* str(x)
Str(s) == IF s = None THEN "None" ELSE s

\* str.lower() on the strings of the model
Lower(s) ==
    CASE s = "Q1" -> "q1"
      [] s = "MQ" -> "mq"
      [] s = "QUADRUPOLE" -> "quadrupole"
      [] s = "SBEND" -> "sbend"
      [] s = "SOLENOID" -> "solenoid"
      [] s = "DRIFT" -> "drift"
      [] s = "Entry" -> "entry"
      [] s = "B1" -> "b1"
      [] s = "D1" -> "d1"
      [] s = "D0" -> "d0"
      [] s = "M1" -> "m1"
      [] s = "S1" -> "s1"
      [] s = "T1" -> "t1"
      [] s = "MB" -> "mb"
      [] s = "S" -> "s"
      [] s = "L1" -> "l1"
      [] s = "L2" -> "l2"
      [] s = "A" -> "a"
      [] s = "E" -> "e"
      [] s = "AT" -> "at"
      [] OTHER -> s

\* stri.__eq__ with a stri (never None) on the left
stri_eq(a, b) == Lower(a) = Lower(Str(b))

\* x == y where x is a stri or None and y a str or None
NameEq(a, b) == IF a = None THEN b = None ELSE stri_eq(a, b)

EmptyArgs == <<>>

Put(args, key, val) ==
    [x \in (DOMAIN args) \cup {key} |-> IF x = key THEN val ELSE args[x]]

Del(args, key) == [x \in (DOMAIN args) \ {key} |-> args[x]]

Merge(a, b) ==
    [x \in (DOMAIN a) \cup (DOMAIN b) |-> IF x \in DOMAIN b THEN b[x] ELSE a[x]]

Element(name, type, args, base) ==
    [name |-> name, type |-> type, args |-> args, base |-> base]

Alloc(h, el) == [h |-> Append(h, el), id |-> Len(h) + 1, err |-> "none"]

Ok(h, id) == [h |-> h, id |-> id, err |-> "none"]

Fail(h, e) == [h |-> h, id |-> 0, err |-> e]

\* Element.copy
Element_copy(el) == Element(el.name, el.type, el.args, el.base)

RECURSIVE BaseTypeRec(_, _, _)
BaseTypeRec(h, id, fuel) ==
    IF h[id].base # 0
    THEN IF fuel = 0 THEN "RecursionError"
         ELSE BaseTypeRec(h, h[id].base, fuel - 1)
    ELSE h[id].type

\* Element.base_type
base_type(h, id) == BaseTypeRec(h, id, Len(h))

RECURSIVE AllArgsRec(_, _, _)
AllArgsRec(h, id, fuel) ==
    IF h[id].base # 0 /\ fuel > 0
    THEN Merge(AllArgsRec(h, h[id].base, fuel - 1), h[id].args)
    ELSE h[id].args

\* Element.all_args
all_args(h, id) == AllArgsRec(h, id, Len(h))

RECURSIVE GetItemRec(_, _, _, _)
GetItemRec(h, id, key, fuel) ==
    IF key \in DOMAIN h[id].args
    THEN [ok |-> TRUE, v |-> h[id].args[key], loop |-> FALSE]
    ELSE IF h[id].base # 0
    THEN IF fuel = 0 THEN [ok |-> FALSE, v |-> Zero, loop |-> TRUE]
         ELSE GetItemRec(h, h[id].base, key, fuel - 1)
    ELSE [ok |-> FALSE, v |-> Zero, loop |-> FALSE]

\* Element.__getitem__: ok is FALSE for a KeyError
Element_getitem(h, id, key) == GetItemRec(h, id, key, Len(h))

\* Element.__contains__
Element_contains(h, id, key) == Element_getitem(h, id, key).ok

\* a get that reads the element's own arguments only
Element_get_own(h, id, key, default) ==
    IF key \in DOMAIN h[id].args THEN h[id].args[key] ELSE default

\* Element.get
Element_get(h, id, key, default) ==
    LET r == Element_getitem(h, id, key) IN IF r.ok THEN r.v ELSE default

Arr(xs) == [arr |-> xs]

----------------------------------------------------------------------------
(* Symbolic values.                                                        *)

NumTok(d) == [num |-> d]

SymTok(s) == [sym |-> s]

\* Identifier(name): a Value with expr = name and the default marker
Identifier(name) == [expr |-> <<SymTok(name)>>, _assign |-> "=", composed |-> FALSE]

IsValue(v) == "expr" \in DOMAIN v

\* Identifier.parse(text, assign), Composed.parse(text, assign): the marker
\* is stored as _assign
Identifier_parse(name, assign) ==
    [expr |-> <<SymTok(name)>>, _assign |-> assign, composed |-> FALSE]

Composed_parse(tokens, assign) ==
    [expr |-> tokens, _assign |-> assign, composed |-> TRUE]

\* a format_safe that never adds parentheses
format_safe_bare(v) == IF IsValue(v) THEN v.expr ELSE <<NumTok(v)>>

\* format_safe: Value.safe_expr, else format_value
format_safe(v) ==
    IF IsValue(v)
    THEN IF v.composed THEN <<SymTok("(")>> \o v.expr \o <<SymTok(")")>>
         ELSE v.expr
    ELSE <<NumTok(v)>>

\* getattr(v, 'assign', '='): a Value stores its marker as _assign
getattr_assign(v) == IF "assign" \in DOMAIN v THEN v.assign ELSE "="

\* Composed.create
Composed_create(a, x, b) ==
    LET delayed == getattr_assign(a) = ":=" \/ getattr_assign(b) = ":="
    IN  [expr |-> format_safe(a) \o <<SymTok(x)>> \o format_safe(b),
         _assign |-> IF delayed THEN ":=" ELSE "=",
         composed |-> TRUE]

\* Symbolic.__binop(op): self op other
Symbolic_binop(self, x, other) == Composed_create(self, x, other)

\* Symbolic.__rbinop(op): other op self, for a left operand that is a number
Symbolic_rbinop(self, x, other) == Composed_create(other, x, self)

\* a + b, a * b on numbers and symbolic values
VAdd(a, b) ==
    IF IsValue(a) \/ IsValue(b) THEN Composed_create(a, "+", b) ELSE DAdd(a, b)

VMul(a, b) ==
    IF IsValue(a) \/ IsValue(b) THEN Composed_create(a, "*", b) ELSE DMul(a, b)

----------------------------------------------------------------------------
(* Rescaling (transform.py).                                               *)

\* rescale_thick without the sbend branch: the angle is left as it is
rescale_thick_noangle(h, id, ratio) ==
    IF ratio = One THEN Ok(h, id)
    ELSE IF ~Element_contains(h, id, "l") THEN Fail(h, "KeyError")
    ELSE Alloc(h, [Element_copy(h[id]) EXCEPT
                      !.args = Put(@, "l", DMul(Element_getitem(h, id, "l").v, ratio))])

\* a rescale_thick that scales the length of the element it is given
rescale_thick_inplace(h, id, ratio) ==
    IF ratio = One THEN Ok(h, id)
    ELSE IF ~Element_contains(h, id, "l") THEN Fail(h, "KeyError")
    ELSE Ok([h EXCEPT ![id].args =
                 Put(@, "l", DMul(Element_getitem(h, id, "l").v, ratio))], id)

\* rescale_thick
rescale_thick(h, id, ratio) ==
    IF ratio = One THEN Ok(h, id)
    ELSE IF ~Element_contains(h, id, "l") THEN Fail(h, "KeyError")
    ELSE LET L  == Element_getitem(h, id, "l").v
             s1 == Alloc(h, [Element_copy(h[id]) EXCEPT
                                !.args = Put(@, "l", DMul(L, ratio))])
         IN  IF stri_eq(base_type(s1.h, s1.id), "sbend")
             THEN IF ~Element_contains(s1.h, s1.id, "angle")
                  THEN Fail(h, "KeyError")
                  ELSE LET a == Element_getitem(s1.h, s1.id, "angle").v
                       IN  Alloc(h, [s1.h[s1.id] EXCEPT
                                       !.args = Put(@, "angle", DMul(a, ratio))])
             ELSE s1

\* the sbend branch of rescale_makethin, on the merged arguments
makethin_sbend(a, ratio) ==
    IF "angle" \notin DOMAIN a THEN [err |-> "TypeError", args |-> a]
    ELSE [err |-> "none",
          args |-> Del(Put(Del(a, "angle"), "knl",
                           Arr(<<DMul(a["angle"], ratio)>>)), "hgap")]

\* one strength of the quadrupole branch: key is K1 or K1S, to is KNL or KSL
makethin_strength(r, key, to, ratio) ==
    IF r.err # "none" \/ key \notin DOMAIN r.args THEN r
    ELSE IF "l" \notin DOMAIN r.args THEN [err |-> "KeyError", args |-> r.args]
    ELSE [err |-> "none",
          args |-> Del(Put(r.args, to,
                           Arr(<<Zero, DMul(DMul(r.args[key], r.args["l"]), ratio)>>)),
                       key)]

\* the quadrupole branch of rescale_makethin
makethin_quadrupole(a, ratio) ==
    makethin_strength(
        makethin_strength([err |-> "none", args |-> a], "k1", "knl", ratio),
        "k1s", "ksl", ratio)

\* the closing lines of rescale_makethin: L becomes lrad
makethin_lrad(a, ratio) ==
    IF "l" \in DOMAIN a THEN Put(Del(a, "l"), "lrad", DMul(a["l"], ratio)) ELSE a

\* the solenoid branch of rescale_makethin
makethin_solenoid(h, id, ratio) ==
    IF ~Element_contains(h, id, "ks") \/ ~Element_contains(h, id, "l")
    THEN Fail(h, "KeyError")
    ELSE LET ks == Element_getitem(h, id, "ks").v
             L  == Element_getitem(h, id, "l").v
         IN  Alloc(h, [Element_copy(h[id]) EXCEPT
                 !.args = Put(Put(Put(@, "ksi", DMul(DMul(ks, L), ratio)),
                                  "lrad", DMul(L, ratio)),
                              "l", Zero)])

\* rescale_makethin
rescale_makethin(h, id, ratio) ==
    LET bt == base_type(h, id)
    IN  IF ~(stri_eq(bt, "sbend") \/ stri_eq(bt, "quadrupole") \/ stri_eq(bt, "solenoid"))
        THEN Ok(h, id)
        ELSE IF stri_eq(bt, "solenoid") THEN makethin_solenoid(h, id, ratio)
        ELSE LET a0 == all_args(h, id)
                 r  == IF stri_eq(bt, "sbend") THEN makethin_sbend(a0, ratio)
                       ELSE makethin_quadrupole(a0, ratio)
             IN  IF r.err # "none" THEN Fail(h, r.err)
                 ELSE Alloc(h, Element(h[id].name, "multipole",
                                       makethin_lrad(r.args, ratio), 0))

----------------------------------------------------------------------------
(* ElementTransform: one slicing rule (transform.py).                      *)

\* a selector: the keys present in the mapping and their values
Selector(keys, name, type, use_at, density, slice, makethin, template, style) ==
    [keys |-> keys, name |-> name, type |-> type, use_at |-> use_at,
     density |-> density, slice |-> slice, makethin |-> makethin,
     template |-> template, style |-> style]

\* exclusive(mapping, *keys): at most one of the keys is contained in the mapping
exclusive(mapping, keys) == Cardinality(keys \cap mapping.keys) <= 1

\* ElementTransform.__init__; the two calls of exclusive are evaluated and
\* their result is dropped
ElementTransform(selector) ==
    LET checked_match == exclusive(selector, {"name", "type"})
        checked_count == exclusive(selector, {"density", "slice"})
        style == IF "style" \in selector.keys THEN selector.style ELSE "uniform"
    IN  [match    |-> IF "name" \in selector.keys THEN "name"
                      ELSE IF "type" \in selector.keys THEN "type"
                      ELSE "all",
         name     |-> selector.name,
         type     |-> selector.type,
         use_at   |-> IF "use_at" \in selector.keys THEN selector.use_at ELSE TRUE,
         count    |-> IF "density" \in selector.keys THEN "density" ELSE "slice",
         density  |-> selector.density,
         slice    |-> IF "slice" \in selector.keys THEN selector.slice ELSE 1,
         makethin |-> IF "makethin" \in selector.keys THEN selector.makethin ELSE FALSE,
         template |-> IF "template" \in selector.keys THEN selector.template ELSE FALSE,
         style    |-> style,
         err      |-> IF style \in {"uniform", "loop"} THEN "none" ELSE "ValueError"]

\* a match that compares the declared type, not the type at the root of the
\* base chain
match_declared(rule, h, id) ==
    CASE rule.match = "name" -> NameEq(h[id].name, rule.name)
      [] rule.match = "type" -> stri_eq(h[id].type, rule.type)
      [] OTHER -> TRUE

\* ElementTransform.match
match(rule, h, id) ==
    CASE rule.match = "name" -> NameEq(h[id].name, rule.name)
      [] rule.match = "type" -> stri_eq(base_type(h, id), rule.type)
      [] OTHER -> TRUE

\* a _get_position that uses at whatever use_at says
get_position_always(rule, h, id, elem_len, offset, rf) ==
    IF Element_contains(h, id, "at")
    THEN DSub(Element_getitem(h, id, "at").v, DMul(elem_len, rf))
    ELSE offset

\* ElementTransform._get_position
get_position(rule, h, id, elem_len, offset, rf) ==
    IF rule.use_at /\ Element_contains(h, id, "at")
    THEN DSub(Element_getitem(h, id, "at").v, DMul(elem_len, rf))
    ELSE offset

\* ElementTransform._get_slice_num
get_slice_num(rule, L) ==
    IF rule.count = "density" THEN CeilAbs(DMul(L, Dec(rule.density, 0)))
    ELSE rule.slice

\* a thick _rescale that leaves the element whole
rescale_whole(rule, h, id, ratio) ==
    IF rule.makethin THEN rescale_makethin(h, id, ratio)
    ELSE rescale_thick(h, id, One)

\* ElementTransform._rescale
rescale(rule, h, id, ratio) ==
    IF rule.makethin THEN rescale_makethin(h, id, ratio)
    ELSE rescale_thick(h, id, ratio)

\* ElementTransform._maketempl
maketempl(rule, id) == IF rule.template THEN <<id>> ELSE <<>>

\* a _stripelem that never strips
stripelem_keep(rule, h, id) == Ok(h, id)

\* ElementTransform._stripelem
stripelem(rule, h, id) ==
    IF rule.template THEN Alloc(h, Element(None, h[id].name, EmptyArgs, id))
    ELSE Ok(h, id)

ElemNode(id) == [kind |-> "elem", id |-> id]

TextNode(s) == [kind |-> "text", s |-> s]

\* offset + slice_idx * slice_len: the entry of the slice whatever refer is
slice_at_entry(offset, idx, rf, slice_len) == VAdd(offset, VMul(idx, slice_len))

\* offset + (slice_idx + refer) * slice_len
slice_at(offset, idx, rf, slice_len) == VAdd(offset, VMul(VAdd(idx, rf), slice_len))

\* slice names counted from 1
slice_name_from1(name, slice_num, slice_idx) ==
    IF name # None /\ name # "" /\ slice_num > 1
    THEN name \o ".." \o ToString(slice_idx + 1)
    ELSE name

\* the name a slice gets
slice_name(name, slice_num, slice_idx) ==
    IF name # None /\ name # "" /\ slice_num > 1
    THEN name \o ".." \o ToString(slice_idx)
    ELSE name

\* one slice of uniform_slice_distribution
uniform_slice(el, offset, rf, slice_num, slice_len, slice_idx) ==
    [Element_copy(el) EXCEPT
        !.args = Put(@, "at", slice_at(offset, Dec(slice_idx, 0), rf, slice_len)),
        !.name = slice_name(el.name, slice_num, slice_idx)]

\* ElementTransform.uniform_slice_distribution
uniform_slice_distribution(h, id, offset, rf, slice_num, slice_len) ==
    IF slice_num <= 0 THEN [h |-> h, elems |-> <<>>]
    ELSE [h     |-> h \o [j \in 1..slice_num |->
                            uniform_slice(h[id], offset, rf, slice_num, slice_len, j - 1)],
          elems |-> [j \in 1..slice_num |-> ElemNode(Len(h) + j)]]

\* a loop that keeps the element's name
uniform_slice_loop_named(h, id, offset, rf, slice_num, slice_len) ==
    [h     |-> Append(h, [Element_copy(h[id]) EXCEPT
                  !.args = Put(@, "at", slice_at(offset, Identifier("i"), rf, slice_len))]),
     elems |-> << TextNode("i = 0;"),
                  TextNode("while (i < " \o ToString(slice_num) \o ") {"),
                  ElemNode(Len(h) + 1),
                  TextNode("i = i + 1;"),
                  TextNode("}") >>]

\* ElementTransform.uniform_slice_loop
uniform_slice_loop(h, id, offset, rf, slice_num, slice_len) ==
    LET sl == [Element_copy(h[id]) EXCEPT
                  !.name = None,
                  !.args = Put(@, "at", slice_at(offset, Identifier("i"), rf, slice_len))]
    IN  [h     |-> Append(h, sl),
         elems |-> << TextNode("i = 0;"),
                      TextNode("while (i < " \o ToString(slice_num) \o ") {"),
                      ElemNode(Len(h) + 1),
                      TextNode("i = i + 1;"),
                      TextNode("}") >>]

\* ElementTransform._distribution
distribution(rule, h, id, offset, rf, slice_num, slice_len) ==
    IF rule.style = "loop"
    THEN uniform_slice_loop(h, id, offset, rf, slice_num, slice_len)
    ELSE uniform_slice_distribution(h, id, offset, rf, slice_num, slice_len)

\* the result of ElementTransform.slice: templates, output nodes and the new
\* position; the entry offset, slice count, slice length and rescaled element
\* are kept too
slice_result(e, h, templ, elems, pos, offset, slice_num, slice_len, scaled) ==
    [err |-> e, h |-> h, templ |-> templ, elems |-> elems, pos |-> pos,
     offset |-> offset, slice_num |-> slice_num, slice_len |-> slice_len,
     scaled |-> scaled]

\* a return statement that advances by the slice length
slice_return_short(rule, elem_len, offset, slice_num, slice_len, scaled, d) ==
    slice_result("none", d.h, maketempl(rule, scaled.id), d.elems,
                 DAdd(offset, slice_len), offset, slice_num, slice_len, scaled.id)

\* ElementTransform.slice, the return statement
slice_return(rule, elem_len, offset, slice_num, slice_len, scaled, d) ==
    slice_result("none", d.h, maketempl(rule, scaled.id), d.elems,
                 DAdd(offset, elem_len), offset, slice_num, slice_len, scaled.id)

\* ElementTransform.slice, from _stripelem on
slice_strip(rule, rf, elem_len, offset, slice_num, slice_len, scaled, st) ==
    slice_return(rule, elem_len, offset, slice_num, slice_len, scaled,
                 distribution(rule, st.h, st.id, offset, rf, slice_num, slice_len))

\* ElementTransform.slice, after _rescale
slice_scaled(rule, h, offset0, rf, elem_len, offset, slice_num, slice_len, scaled) ==
    IF scaled.err # "none"
    THEN slice_result(scaled.err, h, <<>>, <<>>, offset0, offset, slice_num,
                      slice_len, 0)
    ELSE slice_strip(rule, rf, elem_len, offset, slice_num, slice_len, scaled,
                     stripelem(rule, scaled.h, scaled.id))

\* ElementTransform.slice, after the slice count is known
slice_count(rule, h, id, offset0, rf, elem_len, offset, slice_num) ==
    slice_scaled(rule, h, offset0, rf, elem_len, offset, slice_num,
                 DDiv(elem_len, Dec(slice_num, 0)),
                 rescale(rule, h, id, DDiv(One, Dec(slice_num, 0))))

\* _get_slice_num(elem_len) or 1
slice_num_or_1(n) == IF n = 0 THEN 1 ELSE n

\* ElementTransform.slice, after the length is known
slice_len_known(rule, h, id, offset0, rf, elem_len) ==
    slice_count(rule, h, id, offset0, rf, elem_len,
                get_position(rule, h, id, elem_len, offset0, rf),
                slice_num_or_1(get_slice_num(rule, elem_len)))

\* ElementTransform.slice
slice(rule, h, id, offset0, rf) ==
    slice_len_known(rule, h, id, offset0, rf, Element_get(h, id, "l", Zero))

----------------------------------------------------------------------------
(* SequenceTransform and Document.transform (transform.py, document.py).   *)

StrVal(x) == [str |-> x]

SeqNode(elems, preface) == [kind |-> "seq", elems |-> elems, preface |-> preface]

\* Sequence.head, Sequence.body, Sequence.tail
Sequence_head(node) == node.elems[1]

Sequence_body(node) == SubSeq(node.elems, 2, Len(node.elems) - 1)

Sequence_tail(node) == node.elems[Len(node.elems)]

\* SequenceTransform._offsets, a dicti: ok is FALSE for a KeyError
offsets(name) ==
    CASE Lower(name) = "entry"  -> [ok |-> TRUE, v |-> Zero]
      [] Lower(name) = "centre" -> [ok |-> TRUE, v |-> Half]
      [] Lower(name) = "exit"   -> [ok |-> TRUE, v |-> One]
      [] OTHER -> [ok |-> FALSE, v |-> Zero]

\* a catch-all that slices into two
EmptySelector_sliced == Selector({"slice"}, None, None, TRUE, 0, 2, FALSE, FALSE, "uniform")

\* the implicit catch-all rule: ElementTransform({})
EmptySelector == Selector({}, None, None, TRUE, 0, 1, FALSE, FALSE, "uniform")

\* SequenceTransform.__init__
SequenceTransform_init(slicing) ==
    [i \in 1..Len(slicing) |-> ElementTransform(slicing[i])]
        \o <<ElementTransform(EmptySelector)>>

\* defs.get(type) on the dicti defs: 0 for None
defs_get(d, type) ==
    IF type # None /\ Lower(type) \in DOMAIN d THEN d[Lower(type)] ELSE 0

\* the last rule of the list that matches
RECURSIVE last_match(_, _, _, _)
last_match(rs, h, id, i) ==
    IF i > Len(rs) THEN 0
    ELSE IF last_match(rs, h, id, i + 1) # 0 THEN last_match(rs, h, id, i + 1)
    ELSE IF match(rs[i], h, id) THEN i
    ELSE 0

\* the first rule of the list that matches; the catch-all always does
RECURSIVE first_match(_, _, _, _)
first_match(rs, h, id, i) ==
    IF i > Len(rs) THEN 0
    ELSE IF match(rs[i], h, id) THEN i
    ELSE first_match(rs, h, id, i + 1)

CurSeq == doc[ni]

CurBody == Sequence_body(CurSeq)

\* SequenceTransform(slicing)
Construct ==
    /\ pc = "init"
    /\ LET rs  == SequenceTransform_init(selectors)
           bad == {i \in 1..Len(rs) : rs[i].err # "none"}
       IN  IF bad = {}
           THEN /\ rules' = rs
                /\ pc' = "doc"
                /\ err' = "none"
           ELSE /\ rules' = <<>>
                /\ pc' = "error"
                /\ err' = "ValueError"
    /\ UNCHANGED <<heap, selectors, defs, doc, out, ni, head, refer, k,
                   position, templates, elements, calls, arg, res>>

\* SequenceTransform.__call__ on a top-level Element: register it, resolve
\* its base, hand it back unchanged
VisitElement ==
    /\ pc = "doc"
    /\ ni <= Len(doc)
    /\ doc[ni].kind = "elem"
    /\ LET id == doc[ni].id
           d1 == Put(defs, Lower(Str(heap[id].name)), id)
       IN  /\ defs' = d1
           /\ heap' = [heap EXCEPT ![id].base = defs_get(d1, heap[id].type)]
    /\ out' = Append(out, doc[ni])
    /\ ni' = ni + 1
    /\ UNCHANGED <<selectors, rules, doc, pc, head, refer, k, position,
                   templates, elements, calls, arg, res, err>>

\* SequenceTransform.__call__ on a Text node
VisitText ==
    /\ pc = "doc"
    /\ ni <= Len(doc)
    /\ doc[ni].kind = "text"
    /\ out' = Append(out, doc[ni])
    /\ ni' = ni + 1
    /\ UNCHANGED <<heap, selectors, rules, defs, doc, pc, head, refer, k,
                   position, templates, elements, calls, arg, res, err>>

\* SequenceTransform.__call__ on a Sequence, up to the loop over the body
SeqBegin ==
    /\ pc = "doc"
    /\ ni <= Len(doc)
    /\ doc[ni].kind = "seq"
    /\ LET hd == Alloc(heap, Element_copy(heap[Sequence_head(CurSeq).id]))
           rf == Element_get(hd.h, hd.id, "refer", StrVal("centre"))
           o  == offsets(rf.str)
       IN  IF o.ok
           THEN /\ heap' = hd.h
                /\ head' = hd.id
                /\ refer' = o.v
                /\ pc' = "body"
                /\ err' = "none"
           ELSE /\ heap' = hd.h
                /\ head' = hd.id
                /\ refer' = refer
                /\ pc' = "error"
                /\ err' = "KeyError"
    /\ k' = 1
    /\ position' = Zero
    /\ templates' = <<>>
    /\ elements' = <<>>
    /\ UNCHANGED <<selectors, rules, defs, doc, out, ni, calls, arg, res>>

\* what is recorded of a call of ElementTransform.slice
call_record(t, id, before, offset0, rf, r) ==
    [rule |-> t, id |-> id, before |-> before, offset0 |-> offset0,
     refer |-> rf, err |-> r.err, templ |-> r.templ, elems |-> r.elems,
     pos |-> r.pos, offset |-> r.offset, slice_num |-> r.slice_num,
     slice_len |-> r.slice_len, scaled |-> r.scaled]

\* elem._base = defs.get(elem.type)
resolve_base(h, id, d) == [h EXCEPT ![id].base = defs_get(d, h[id].type)]

\* the loop body, after transform(elem, position) has returned r
TransformReturn(id, h1, t, r) ==
    /\ calls' = Append(calls, call_record(t, id, h1[id], position, refer, r))
    /\ IF r.err = "none"
       THEN /\ heap' = r.h
            /\ templates' = templates \o r.templ
            /\ elements' = elements \o r.elems
            /\ position' = r.pos
            /\ k' = k + 1
            /\ UNCHANGED <<pc, err>>
       ELSE /\ heap' = h1
            /\ pc' = "error"
            /\ err' = r.err
            /\ UNCHANGED <<templates, elements, position, k>>

\* transform(elem, offset), once the rule t is selected
TransformMatched(id, h1, t) ==
    TransformReturn(id, h1, t, slice(rules[t], h1, id, position, refer))

\* transform(elem, offset), once the base is resolved
TransformResolved(id, h1) ==
    TransformMatched(id, h1, first_match(rules, h1, id, 1))

\* one turn of the loop over the body, on a real element: transform(elem, position)
TransformElem ==
    /\ pc = "body"
    /\ k <= Len(CurBody)
    /\ CurBody[k].kind = "elem"
    /\ TransformResolved(CurBody[k].id, resolve_base(heap, CurBody[k].id, defs))
    /\ UNCHANGED <<selectors, rules, defs, doc, out, ni, head, refer, arg, res>>

\* a turn on a text node that puts the text before the elements
PassText_first ==
    /\ pc = "body"
    /\ k <= Len(CurBody)
    /\ CurBody[k].kind = "text"
    /\ elements' = <<CurBody[k]>> \o elements
    /\ k' = k + 1
    /\ UNCHANGED <<heap, selectors, rules, defs, doc, out, ni, pc, head, refer,
                   position, templates, calls, arg, res, err>>

\* one turn of the loop over the body, on a text node
PassText ==
    /\ pc = "body"
    /\ k <= Len(CurBody)
    /\ CurBody[k].kind = "text"
    /\ elements' = Append(elements, CurBody[k])
    /\ k' = k + 1
    /\ UNCHANGED <<heap, selectors, rules, defs, doc, out, ni, pc, head, refer,
                   position, templates, calls, arg, res, err>>

\* the text that opens the templates of a sequence
template_header(name) == TextNode("! Template elements for " \o Str(name) \o ":")

\* SequenceTransform.__call__ after the loop: the head's L, the preface, the
\* new Sequence
SeqEnd ==
    /\ pc = "body"
    /\ k > Len(CurBody)
    /\ heap' = [heap EXCEPT ![head].args = Put(@, "l", position)]
    /\ LET preface == IF templates # <<>>
                      THEN <<template_header(heap[head].name)>>
                               \o [i \in 1..Len(templates) |-> ElemNode(templates[i])]
                               \o <<TextNode("")>>
                      ELSE <<>>
       IN  out' = Append(out, SeqNode(<<ElemNode(head)>> \o elements
                                         \o <<Sequence_tail(CurSeq)>>, preface))
    /\ ni' = ni + 1
    /\ pc' = "doc"
    /\ UNCHANGED <<selectors, rules, defs, doc, head, refer, k, position,
                   templates, elements, calls, arg, res, err>>

\* Document.transform returns the new Document
Finish ==
    /\ pc = "doc"
    /\ ni > Len(doc)
    /\ pc' = "done"
    /\ UNCHANGED <<heap, selectors, rules, defs, doc, out, ni, head, refer, k,
                   position, templates, elements, calls, arg, res, err>>

Next ==
    \/ Construct
    \/ VisitElement
    \/ VisitText
    \/ SeqBegin
    \/ TransformElem
    \/ PassText
    \/ SeqEnd
    \/ Finish

----------------------------------------------------------------------------
(* Inputs.                                                                 *)

SeqsUpTo(S, n) == UNION {[1..m -> S] : m \in 0..n}

\* the objects a parsed node list holds: every element gets a heap slot
RECURSIVE build_nodes(_, _, _)
build_nodes(items, h, acc) ==
    IF items = <<>> THEN [h |-> h, nodes |-> acc]
    ELSE IF Head(items).kind = "text"
    THEN build_nodes(Tail(items), h, Append(acc, TextNode(Head(items).s)))
    ELSE build_nodes(Tail(items), Append(h, Head(items).el),
                     Append(acc, ElemNode(Len(h) + 1)))

ElemItem(el) == [kind |-> "elem", el |-> el]

TextItem(s) == [kind |-> "text", s |-> s]

\* MQ: QUADRUPOLE, L=2, K1=3;
DefMQ == Element("MQ", "QUADRUPOLE", [l |-> Dec(2, 0), k1 |-> Dec(3, 0)], 0)

\* the nodes a sequence body is drawn from
BodyItems ==
    { ElemItem(Element("Q1", "QUADRUPOLE",
                       [l |-> Dec(2, 0), k1 |-> Dec(3, 0), at |-> Zero], 0)),
      ElemItem(Element("B1", "SBEND", [l |-> Dec(3, 0), angle |-> One], 0)),
      ElemItem(Element(None, "MQ", EmptyArgs, 0)),
      ElemItem(Element("D1", "drift", [l |-> One, at |-> Dec(5, 0)], 0)),
      ElemItem(Element("M1", "marker", EmptyArgs, 0)),
      TextItem("! comment") }

\* the selectors a slicing definition is drawn from
RuleItems ==
    { Selector({"type", "slice"}, None, "quadrupole", TRUE, 0, 2, FALSE, FALSE, "uniform"),
      Selector({"name", "slice", "use_at"}, "q1", None, FALSE, 0, MaxSlice, FALSE, FALSE, "uniform"),
      Selector({"type", "slice"}, None, "mq", TRUE, 0, 2, FALSE, FALSE, "uniform"),
      Selector({"name", "type", "slice"}, "b1", "drift", TRUE, 0, 2, FALSE, FALSE, "uniform"),
      Selector({"slice", "template"}, None, None, TRUE, 0, 2, FALSE, TRUE, "uniform") }

\* the values of the head's refer argument; absent for None
ReferItems == {"entry", "centre", "exit", None}

SeqHead(rf) ==
    Element("S", "sequence",
            IF rf = None THEN EmptyArgs ELSE [refer |-> StrVal(rf)], 0)

SeqTail == Element(None, "endsequence", EmptyArgs, 0)

\* ! text; MQ: QUADRUPOLE, ...; S: SEQUENCE, refer=...; body; ENDSEQUENCE;
InitDoc(rf, body) ==
    LET b == build_nodes(body, <<DefMQ, SeqHead(rf)>>, <<>>)
    IN  [h   |-> Append(b.h, SeqTail),
         doc |-> << TextNode("! lattice"), ElemNode(1),
                    SeqNode(<<ElemNode(2)>> \o b.nodes \o <<ElemNode(Len(b.h) + 1)>>,
                            <<>>) >>]

Init ==
    \E rf \in ReferItems, body \in SeqsUpTo(BodyItems, MaxBody),
       slicing \in SeqsUpTo(RuleItems, MaxRules) :
        /\ heap = InitDoc(rf, body).h
        /\ doc = InitDoc(rf, body).doc
        /\ selectors = slicing
        /\ rules = <<>>
        /\ defs = EmptyArgs
        /\ out = <<>>
        /\ ni = 1
        /\ pc = "init"
        /\ head = 0
        /\ refer = Zero
        /\ k = 1
        /\ position = Zero
        /\ templates = <<>>
        /\ elements = <<>>
        /\ calls = <<>>
        /\ arg = <<>>
        /\ res = <<>>
        /\ err = "none"

Spec == Init /\ [][Next]_vars

----------------------------------------------------------------------------
(* ElementTransform.slice and the rescale functions applied on their own.  *)

\* MB: SBEND, L=3, angle=1;
DefMB == Element("MB", "SBEND", [l |-> Dec(3, 0), angle |-> One], 0)

\* T1: DRIFT, L=1, at=3;
DefT1 == Element("T1", "DRIFT", [l |-> One, at |-> Dec(3, 0)], 0)

\* heaps whose last element is the one handed to slice or to a rescale
\* function, its base (if any) resolved
ElemHeaps ==
    { <<Element("Q1", "QUADRUPOLE", [l |-> Dec(2, 0), k1 |-> Dec(3, 0), at |-> Zero], 0)>>,
      <<Element(None, "QUADRUPOLE", [k1 |-> Dec(3, 0), l |-> Dec(25, -1)], 0)>>,
      <<Element("Q1", "quadrupole", [l |-> One, k1 |-> Dec(3, 0), k1s |-> Dec(2, 0)], 0)>>,
      <<Element("Q1", "QUADRUPOLE", [k1 |-> Dec(3, 0)], 0)>>,
      <<Element("Q1", "QUADRUPOLE", [l |-> Zero], 0)>>,
      <<Element(None, "SBEND", [angle |-> Dec(314, -2), hgap |-> One, l |-> Dec(35, -1)], 0)>>,
      <<Element("B1", "SBEND", [l |-> Dec(3, 0), angle |-> One, at |-> Dec(5, 0)], 0)>>,
      <<Element("B1", "sbend", [l |-> One], 0)>>,
      <<Element("S1", "SOLENOID", [l |-> Dec(2, 0), ks |-> One], 0)>>,
      <<Element("S1", "SOLENOID", [l |-> Dec(2, 0)], 0)>>,
      <<Element("D1", "DRIFT", [l |-> One], 0)>>,
      <<Element("D1", "drift", [l |-> Dec(2, 0), at |-> Dec(5, 0)], 0)>>,
      <<Element("D1", "DRIFT", [l |-> Dec(15, -1), at |-> One], 0)>>,
      <<Element("M1", "marker", EmptyArgs, 0)>>,
      <<Element("M1", "marker", [at |-> One], 0)>>,
      <<DefMQ, Element(None, "MQ", EmptyArgs, 1)>>,
      <<DefMQ, Element("Q1", "MQ", [at |-> One], 1)>>,
      <<DefMB, Element("B1", "MB", EmptyArgs, 1)>>,
      <<DefT1, Element("D1", "T1", EmptyArgs, 1)>>,
      <<Element("D0", "DRIFT", [l |-> Dec(2, 0)], 0),
        Element("D1", "D0", EmptyArgs, 1),
        Element(None, "D1", EmptyArgs, 2)>> }

\* how a selector fixes the slice count: the keys and the values
CountItems ==
    {[keys |-> {}, density |-> 0, slice |-> 1],
     [keys |-> {"density", "slice"}, density |-> 1, slice |-> 2]}
    \cup {[keys |-> {"slice"}, density |-> 0, slice |-> n] : n \in 0..MaxSlice}
    \cup {[keys |-> {"density"}, density |-> n, slice |-> 1] : n \in 1..2}

BoolKey(key, b) == IF b THEN {key} ELSE {}

\* the selectors handed to ElementTransform on its own
SliceSelectors ==
    { Selector(c.keys \cup BoolKey("use_at", ~ua) \cup BoolKey("makethin", mt)
                   \cup BoolKey("template", tp) \cup BoolKey("style", st # "uniform"),
               None, None, ua, c.density, c.slice, mt, tp, st) :
        c \in CountItems, ua \in BOOLEAN, mt \in BOOLEAN, tp \in BOOLEAN,
        st \in {"uniform", "loop"} }
    \cup { Selector({"style"}, None, None, TRUE, 0, 1, FALSE, FALSE, "spline") }

InitSlice ==
    \E h \in ElemHeaps, sel \in SliceSelectors,
       off \in {Zero, Dec(15, -1)}, rf \in {Zero, Half, One} :
        /\ heap = h
        /\ selectors = <<sel>>
        /\ arg = [id |-> Len(h), offset |-> off, refer |-> rf]
        /\ rules = <<>>
        /\ defs = EmptyArgs
        /\ doc = <<>>
        /\ out = <<>>
        /\ ni = 1
        /\ pc = "init"
        /\ head = 0
        /\ refer = rf
        /\ k = 1
        /\ position = off
        /\ templates = <<>>
        /\ elements = <<>>
        /\ calls = <<>>
        /\ res = <<>>
        /\ err = "none"

\* ElementTransform(selector)
ConstructRule ==
    /\ pc = "init"
    /\ rules' = <<ElementTransform(selectors[1])>>
    /\ err' = ElementTransform(selectors[1]).err
    /\ pc' = IF ElementTransform(selectors[1]).err = "none" THEN "rule" ELSE "error"
    /\ UNCHANGED <<heap, selectors, defs, doc, out, ni, head, refer, k,
                   position, templates, elements, calls, arg, res>>

\* rule.slice(elem, offset, refer) has returned r
SliceReturn(r) ==
    /\ calls' = Append(calls, call_record(1, arg.id, heap[arg.id], arg.offset,
                                          arg.refer, r))
    /\ heap' = r.h
    /\ err' = r.err
    /\ templates' = r.templ
    /\ elements' = r.elems
    /\ position' = r.pos
    /\ pc' = IF r.err = "none" THEN "done" ELSE "error"

\* rule.slice(elem, offset, refer)
CallSlice ==
    /\ pc = "rule"
    /\ SliceReturn(slice(rules[1], heap, arg.id, arg.offset, arg.refer))
    /\ UNCHANGED <<selectors, rules, defs, doc, out, ni, head, refer, k,
                   arg, res>>

NextSlice == ConstructRule \/ CallSlice

SpecSlice == InitSlice /\ [][NextSlice]_vars

\* the ratios handed to a rescale function
RatioItems == {DDiv(One, Dec(n, 0)) : n \in 1..(MaxSlice + 1)}

InitRescale ==
    \E h \in ElemHeaps, ratio \in RatioItems :
        /\ heap = h
        /\ arg = [id |-> Len(h), ratio |-> ratio]
        /\ selectors = <<>>
        /\ rules = <<>>
        /\ defs = EmptyArgs
        /\ doc = <<>>
        /\ out = <<>>
        /\ ni = 1
        /\ pc = "rescale"
        /\ head = 0
        /\ refer = Zero
        /\ k = 1
        /\ position = Zero
        /\ templates = <<>>
        /\ elements = <<>>
        /\ calls = <<>>
        /\ res = <<>>
        /\ err = "none"

\* a rescale function has returned r
RescaleReturn(fn, r) ==
    /\ res' = [fn |-> fn, id |-> r.id, err |-> r.err]
    /\ heap' = r.h
    /\ err' = r.err
    /\ pc' = IF r.err = "none" THEN "done" ELSE "error"
    /\ UNCHANGED <<selectors, rules, defs, doc, out, ni, head, refer, k,
                   position, templates, elements, calls, arg>>

\* rescale_thick(elem, ratio)
CallRescaleThick ==
    /\ pc = "rescale"
    /\ RescaleReturn("rescale_thick", rescale_thick(heap, arg.id, arg.ratio))

\* rescale_makethin(elem, ratio)
CallRescaleMakethin ==
    /\ pc = "rescale"
    /\ RescaleReturn("rescale_makethin", rescale_makethin(heap, arg.id, arg.ratio))

NextRescale == CallRescaleThick \/ CallRescaleMakethin

SpecRescale == InitRescale /\ [][NextRescale]_vars

----------------------------------------------------------------------------
(* Symbolic values combined with binary operators (types.py).              *)

\* how deep compositions are nested
MaxDepth == 2

\* the binary operators of Symbolic
BinOps == {"+", "-", "*", "/"}

\* numbers: i = -13, f = Decimal('12.0'), 2
NumberItems == {Dec(-13, 0), Dec(120, -1), Dec(2, 0)}

\* symbolic values as the parser builds them, immediate and deferred
SymbolItems ==
    { Identifier_parse("pi", "="), Identifier_parse("pi", ":="),
      Identifier_parse("x", ":="),
      Composed_parse(<<SymTok("a"), SymTok("+"), SymTok("b")>>, ":=") }

InitValue ==
    \E v \in SymbolItems :
        /\ res = v
        /\ arg = <<>>
        /\ k = 0
        /\ pc = "value"
        /\ heap = <<>>
        /\ selectors = <<>>
        /\ rules = <<>>
        /\ defs = EmptyArgs
        /\ doc = <<>>
        /\ out = <<>>
        /\ ni = 1
        /\ head = 0
        /\ refer = Zero
        /\ position = Zero
        /\ templates = <<>>
        /\ elements = <<>>
        /\ calls = <<>>
        /\ err = "none"

\* the operands a, b and the operator x give the value v
Combine(a, x, b, v) ==
    /\ res' = v
    /\ arg' = [a |-> a, x |-> x, b |-> b]
    /\ k' = k + 1
    /\ UNCHANGED <<heap, selectors, rules, defs, doc, out, ni, pc, head, refer,
                   position, templates, elements, calls, err>>

\* res op b: the left operand is the symbolic value at hand
BinopLeft ==
    /\ pc = "value"
    /\ k < MaxDepth
    /\ \E x \in BinOps, b \in NumberItems \cup SymbolItems :
           Combine(res, x, b, Symbolic_binop(res, x, b))

\* a op res: both operands symbolic, the left one's operator is used
BinopRight ==
    /\ pc = "value"
    /\ k < MaxDepth
    /\ \E x \in BinOps, a \in SymbolItems :
           Combine(a, x, res, Symbolic_binop(a, x, res))

\* n op res: the left operand is a number, the reflected operator is used
RBinop ==
    /\ pc = "value"
    /\ k < MaxDepth
    /\ \E x \in BinOps, n \in NumberItems :
           Combine(n, x, res, Symbolic_rbinop(res, x, n))

NextValue == BinopLeft \/ BinopRight \/ RBinop

SpecValue == InitValue /\ [][NextValue]_vars

----------------------------------------------------------------------------
(* The mapping interface of Element (types.py).  The arguments of an       *)
(* element are a case-insensitive dictionary when the parser built them    *)
(* (parse_args gives an odicti) and a plain dict when the element was      *)
(* built with {} (the references of _stripelem and of Sequence.detect).    *)
(* The keys of a case-insensitive dictionary are kept in lower case, those *)
(* of a plain dict as they were written.                                   *)

\* None as the value of an argument or of a call
NoneValue == [none |-> TRUE]

\* key in args, for args case-insensitive (ci) or plain
dict_contains(args, ci, key) == (IF ci THEN Lower(key) ELSE key) \in DOMAIN args

\* args[key]
dict_getitem(args, ci, key) == args[IF ci THEN Lower(key) ELSE key]

\* args.pop(key), the dictionary left
dict_pop(args, ci, key) == Del(args, IF ci THEN Lower(key) ELSE key)

\* Element.__getitem__ on elements of either kind: plain is the set of the
\* elements whose args are a plain dict; err is KeyError when no layer has
\* the key
RECURSIVE getitem(_, _, _, _, _)
getitem(h, plain, id, key, fuel) ==
    IF dict_contains(h[id].args, id \notin plain, key)
    THEN [err |-> "none", v |-> dict_getitem(h[id].args, id \notin plain, key)]
    ELSE IF h[id].base # 0
    THEN IF fuel = 0 THEN [err |-> "RecursionError", v |-> NoneValue]
         ELSE getitem(h, plain, h[id].base, key, fuel - 1)
    ELSE [err |-> "KeyError", v |-> NoneValue]

\* Element.get
get(h, plain, id, key, default) ==
    IF getitem(h, plain, id, key, Len(h)).err = "KeyError"
    THEN [err |-> "none", v |-> default]
    ELSE getitem(h, plain, id, key, Len(h))

\* self._base[key] inside pop: a TypeError when there is no base
pop_base(h, plain, id, key) ==
    IF h[id].base = 0 THEN [err |-> "TypeError", v |-> NoneValue]
    ELSE getitem(h, plain, h[id].base, key, Len(h))

\* Element.pop(key, *default): defaults is <<>> or <<default>>
pop(h, plain, id, key, defaults) ==
    IF dict_contains(h[id].args, id \notin plain, key)
    THEN [h   |-> [h EXCEPT ![id].args = dict_pop(@, id \notin plain, key)],
          err |-> "none",
          v   |-> dict_getitem(h[id].args, id \notin plain, key)]
    ELSE IF pop_base(h, plain, id, key).err \in {"KeyError", "TypeError"}
             /\ defaults # <<>>
    THEN [h |-> h, err |-> "none", v |-> defaults[1]]
    ELSE [h |-> h, err |-> pop_base(h, plain, id, key).err,
          v |-> pop_base(h, plain, id, key).v]

\* the chain of test_deep_lookup, and a reference with its own at whose
\* template has an at too (the output of a template rule), the reference's
\* args being a plain dict
LookupHeaps ==
    { [h |-> << Element(None, None, [a |-> StrVal("a0"), b |-> StrVal("b0"),
                                     c |-> StrVal("c0")], 0),
                Element(None, None, [a |-> StrVal("a1"), b |-> StrVal("b1"),
                                     d |-> StrVal("d1")], 1),
                Element(None, None, [a |-> StrVal("a2")], 2) >>,
       plain |-> {}],
      [h |-> << Element("Q1", "QUADRUPOLE", [l |-> One, at |-> Zero], 0),
                Element(None, "Q1", [at |-> Dec(15, -1)], 1) >>,
       plain |-> {2}],
      [h |-> << Element("Q1", "QUADRUPOLE", [l |-> One], 0),
                Element(None, "Q1", [at |-> Dec(15, -1)], 1) >>,
       plain |-> {2}],
      [h |-> << Element("name", "type", [a |-> Dec(97, 0), e |-> Dec(101, 0)], 0) >>,
       plain |-> {}] }

LookupKeys == {"a", "A", "b", "c", "d", "e", "E", "at", "AT", "l"}

InitElement ==
    \E c \in LookupHeaps, id \in 1..3, key \in LookupKeys,
       defaults \in {<<>>, <<NoneValue>>, <<Zero>>} :
        /\ id <= Len(c.h)
        /\ heap = c.h
        /\ arg = [id |-> id, key |-> key, plain |-> c.plain, defaults |-> defaults]
        /\ res = <<>>
        /\ pc = "element"
        /\ k = 0
        /\ selectors = <<>>
        /\ rules = <<>>
        /\ defs = EmptyArgs
        /\ doc = <<>>
        /\ out = <<>>
        /\ ni = 1
        /\ head = 0
        /\ refer = Zero
        /\ position = Zero
        /\ templates = <<>>
        /\ elements = <<>>
        /\ calls = <<>>
        /\ err = "none"

\* a method of Element has returned r on the heap h
ElementReturn(fn, h, r) ==
    /\ res' = [fn |-> fn, err |-> r.err, v |-> r.v, before |-> heap]
    /\ heap' = h
    /\ err' = r.err
    /\ pc' = IF r.err = "none" THEN "done" ELSE "error"
    /\ UNCHANGED <<selectors, rules, defs, doc, out, ni, head, refer, k,
                   position, templates, elements, calls, arg>>

\* elem[key]
CallGetItem ==
    /\ pc = "element"
    /\ ElementReturn("getitem", heap,
                     getitem(heap, arg.plain, arg.id, arg.key, Len(heap)))

\* elem.get(key) and elem.get(key, default)
CallGet ==
    /\ pc = "element"
    /\ ElementReturn("get", heap,
                     get(heap, arg.plain, arg.id, arg.key,
                         IF arg.defaults = <<>> THEN NoneValue ELSE arg.defaults[1]))

\* elem.pop(key) and elem.pop(key, default)
CallPop ==
    /\ pc = "element"
    /\ ElementReturn("pop", pop(heap, arg.plain, arg.id, arg.key, arg.defaults).h,
                     pop(heap, arg.plain, arg.id, arg.key, arg.defaults))

NextElement == CallGetItem \/ CallGet \/ CallPop

SpecElement == InitElement /\ [][NextElement]_vars

----------------------------------------------------------------------------
(* Sequence.detect on a list of parsed nodes, then Document.transform      *)
(* (types.py, document.py).  A Line node carries its name and the names    *)
(* of its elements as they were written.                                   *)

MaxNodes == 4

LineNode(name, elems) == [kind |-> "line", name |-> name, elems |-> elems]

\* node.type: None for a Text, 'line' for a Line
node_type(h, n) ==
    CASE n.kind = "elem" -> h[n.id].type
      [] n.kind = "line" -> "line"
      [] OTHER -> None

\* node.name: None for a Text
node_name(h, n) ==
    CASE n.kind = "elem" -> h[n.id].name
      [] n.kind = "line" -> n.name
      [] OTHER -> None

\* dicti((str(el.name), el) for el in elements if el.name): the first n
\* nodes, a later node of the same name replaces the earlier one
RECURSIVE by_name(_, _, _)
by_name(nodes, h, n) ==
    IF n = 0 THEN EmptyArgs
    ELSE IF node_name(h, nodes[n]) # None
    THEN Put(by_name(nodes, h, n - 1), Lower(node_name(h, nodes[n])), nodes[n])
    ELSE by_name(nodes, h, n - 1)

\* the inner loop of detect stops at the last endsequence of the list
RECURSIVE find_end_last(_, _, _)
find_end_last(nodes, h, i) ==
    IF i > Len(nodes) THEN 0
    ELSE IF find_end_last(nodes, h, i + 1) # 0 THEN find_end_last(nodes, h, i + 1)
    ELSE IF stri_eq(node_type(h, nodes[i]), "endsequence") THEN i
    ELSE 0

\* the inner loop of detect: the index of the first node from i on whose
\* type is endsequence, 0 when the iterator runs out
RECURSIVE find_end(_, _, _)
find_end(nodes, h, i) ==
    IF i > Len(nodes) THEN 0
    ELSE IF stri_eq(node_type(h, nodes[i]), "endsequence") THEN i
    ELSE find_end(nodes, h, i + 1)

\* args.setdefault(key, val)
setdefault(args, key, val) == IF key \in DOMAIN args THEN args ELSE Put(args, key, val)

\* Element(None, el_name, {}, by_name[el_name]) for the names of a Line
line_refs(bn, names) ==
    [m \in 1..Len(names) |-> Element(None, names[m], EmptyArgs, bn[Lower(names[m])].id)]

\* one turn of the outer loop of detect on a sequence head: the nodes up to
\* the next endsequence become one Sequence
DetectSequence ==
    /\ pc = "detect"
    /\ arg.i <= Len(arg.nodes)
    /\ stri_eq(node_type(heap, arg.nodes[arg.i]), "sequence")
    /\ heap' = [heap EXCEPT ![arg.nodes[arg.i].id].args =
                                setdefault(@, "refer", StrVal("entry"))]
    /\ LET e == find_end(arg.nodes, heap, arg.i + 1)
       IN  IF e # 0
           THEN /\ doc' = Append(doc, SeqNode(SubSeq(arg.nodes, arg.i, e), <<>>))
                /\ arg' = [arg EXCEPT !.i = e + 1]
                /\ UNCHANGED <<pc, err>>
           ELSE /\ pc' = "error"
                /\ err' = "AssertionError"
                /\ arg' = [arg EXCEPT !.i = Len(arg.nodes) + 1]
                /\ UNCHANGED doc
    /\ UNCHANGED <<selectors, rules, defs, out, ni, head, refer, k, position,
                   templates, elements, calls, res>>

\* one turn of the outer loop of detect on a Line: a Sequence of references
\* to (or, inline, of) the named elements
DetectLine ==
    /\ pc = "detect"
    /\ arg.i <= Len(arg.nodes)
    /\ stri_eq(node_type(heap, arg.nodes[arg.i]), "line")
    /\ LET ln  == arg.nodes[arg.i]
           bn  == by_name(arg.nodes, heap, Len(arg.nodes))
           n   == Len(ln.elems)
           hd  == Element(ln.name, "sequence", [refer |-> StrVal("entry")], 0)
           tl  == Element(None, "endsequence", EmptyArgs, 0)
           at0 == Len(heap) + 1
       IN  IF \E m \in 1..n : Lower(ln.elems[m]) \notin DOMAIN bn
           THEN /\ pc' = "error"
                /\ err' = "KeyError"
                /\ UNCHANGED <<heap, doc>>
           ELSE /\ IF arg.inline
                   THEN /\ heap' = heap \o <<hd, tl>>
                        /\ doc' = Append(doc,
                               SeqNode(<<ElemNode(at0)>>
                                           \o [m \in 1..n |-> bn[Lower(ln.elems[m])]]
                                           \o <<ElemNode(at0 + 1)>>, <<>>))
                   ELSE /\ heap' = heap \o <<hd>> \o line_refs(bn, ln.elems) \o <<tl>>
                        /\ doc' = Append(doc,
                               SeqNode([m \in 1..(n + 2) |-> ElemNode(at0 + m - 1)],
                                       <<>>))
                /\ UNCHANGED <<pc, err>>
    /\ arg' = [arg EXCEPT !.i = @ + 1]
    /\ UNCHANGED <<selectors, rules, defs, out, ni, head, refer, k, position,
                   templates, elements, calls, res>>

\* one turn of the outer loop of detect on any other node: yield elem
DetectOther ==
    /\ pc = "detect"
    /\ arg.i <= Len(arg.nodes)
    /\ ~stri_eq(node_type(heap, arg.nodes[arg.i]), "sequence")
    /\ ~stri_eq(node_type(heap, arg.nodes[arg.i]), "line")
    /\ doc' = Append(doc, arg.nodes[arg.i])
    /\ arg' = [arg EXCEPT !.i = @ + 1]
    /\ UNCHANGED <<heap, selectors, rules, defs, out, ni, pc, head, refer, k,
                   position, templates, elements, calls, res, err>>

\* Document(Sequence.detect(...)): the list of the detected nodes is stored
DocumentInit ==
    /\ pc = "detect"
    /\ arg.i > Len(arg.nodes)
    /\ pc' = "init"
    /\ UNCHANGED <<heap, selectors, rules, defs, doc, out, ni, head, refer, k,
                   position, templates, elements, calls, arg, res, err>>

\* one turn of the loop over the body on a Line that an enclosing sequence
\* swallowed: a Line has a type and a name but neither get nor base_type
TransformLine ==
    /\ pc = "body"
    /\ k <= Len(CurBody)
    /\ CurBody[k].kind = "line"
    /\ pc' = "error"
    /\ err' = "AttributeError"
    /\ UNCHANGED <<heap, selectors, rules, defs, doc, out, ni, head, refer, k,
                   position, templates, elements, calls, arg, res>>

LineItem(name, elems) == [kind |-> "line", name |-> name, elems |-> elems]

\* the objects of a node list: every element gets a heap slot
RECURSIVE build_raw(_, _, _)
build_raw(items, h, acc) ==
    IF items = <<>> THEN [h |-> h, nodes |-> acc]
    ELSE IF Head(items).kind = "text"
    THEN build_raw(Tail(items), h, Append(acc, TextNode(Head(items).s)))
    ELSE IF Head(items).kind = "line"
    THEN build_raw(Tail(items), h,
                   Append(acc, LineNode(Head(items).name, Head(items).elems)))
    ELSE build_raw(Tail(items), Append(h, Head(items).el),
                   Append(acc, ElemNode(Len(h) + 1)))

\* MQ: mq, L=3;  an element named as its own type
SelfDef == ElemItem(Element("MQ", "mq", [l |-> Dec(3, 0)], 0))

\* the nodes a document is drawn from
NodeItems ==
    { ElemItem(Element("D1", "DRIFT", [l |-> One], 0)),
      ElemItem(Element("d1", "drift", [l |-> Dec(2, 0)], 0)),
      ElemItem(Element(None, "D1", EmptyArgs, 0)),
      SelfDef,
      ElemItem(SeqHead(None)),
      ElemItem(SeqHead("centre")),
      ElemItem(SeqTail),
      TextItem("! comment"),
      LineItem("L1", <<"D1", "d1">>),
      LineItem("L2", <<"x9">>) }

\* the slicing definitions of the documents
SlicingItems ==
    { <<>>,
      <<Selector({"type", "slice"}, None, "drift", TRUE, 0, 2, FALSE, FALSE, "uniform")>> }

\* node lists in which at most one element is named as its own type
NodeLists ==
    {items \in SeqsUpTo(NodeItems, MaxNodes) :
        Cardinality({i \in 1..Len(items) : items[i] = SelfDef}) <= 1}

InitDetect ==
    \E items \in NodeLists, inline \in BOOLEAN, slicing \in SlicingItems :
        /\ heap = build_raw(items, <<>>, <<>>).h
        /\ arg = [nodes |-> build_raw(items, <<>>, <<>>).nodes, i |-> 1,
                  inline |-> inline]
        /\ doc = <<>>
        /\ selectors = slicing
        /\ rules = <<>>
        /\ defs = EmptyArgs
        /\ out = <<>>
        /\ ni = 1
        /\ pc = "detect"
        /\ head = 0
        /\ refer = Zero
        /\ k = 1
        /\ position = Zero
        /\ templates = <<>>
        /\ elements = <<>>
        /\ calls = <<>>
        /\ res = <<>>
        /\ err = "none"

NextDetect ==
    \/ DetectSequence
    \/ DetectLine
    \/ DetectOther
    \/ DocumentInit
    \/ Construct
    \/ VisitElement
    \/ VisitText
    \/ SeqBegin
    \/ TransformElem
    \/ TransformLine
    \/ PassText
    \/ SeqEnd
    \/ Finish

SpecDetect == InitDetect /\ [][NextDetect]_vars

----------------------------------------------------------------------------
(* Document.transform applied to its own output (document.py).             *)

\* the document of Init, to be transformed twice
InitTwice ==
    \E rf \in ReferItems, body \in SeqsUpTo(BodyItems, MaxBody),
       slicing \in SeqsUpTo(RuleItems, MaxRules) :
        /\ heap = InitDoc(rf, body).h
        /\ doc = InitDoc(rf, body).doc
        /\ selectors = slicing
        /\ rules = <<>>
        /\ defs = EmptyArgs
        /\ out = <<>>
        /\ ni = 1
        /\ pc = "init"
        /\ head = 0
        /\ refer = Zero
        /\ k = 1
        /\ position = Zero
        /\ templates = <<>>
        /\ elements = <<>>
        /\ calls = <<>>
        /\ arg = [pass |-> 1, first |-> <<>>, calls |-> 0]
        /\ res = <<>>
        /\ err = "none"

\* the new Document is transformed with the same SequenceTransform:
\* Document.transform starts from an empty defs
TransformAgain ==
    /\ pc = "done"
    /\ arg.pass = 1
    /\ doc' = out
    /\ out' = <<>>
    /\ defs' = EmptyArgs
    /\ ni' = 1
    /\ pc' = "doc"
    /\ arg' = [pass |-> 2, first |-> out, calls |-> Len(calls)]
    /\ UNCHANGED <<heap, selectors, rules, head, refer, k, position, templates,
                   elements, calls, res, err>>

NextTwice == Next \/ TransformAgain

SpecTwice == InitTwice /\ [][NextTwice]_vars

----------------------------------------------------------------------------
(* Document.transform on sequences with texts between the elements.        *)

MaxText == 3

\* the nodes of a body of texts and elements
TextBodyItems ==
    { ElemItem(Element("D1", "drift", [l |-> One], 0)),
      ElemItem(Element(None, "MQ", EmptyArgs, 0)),
      ElemItem(Element("Q1", "QUADRUPOLE",
                       [l |-> Dec(2, 0), k1 |-> Dec(3, 0), at |-> Dec(5, 0)], 0)),
      TextItem("! comment"),
      TextItem("") }

\* the selectors of the slicing definitions: those of RuleItems and rules
\* that make thin slices, count by density, or write a loop
TextRuleItems ==
    RuleItems \cup
    { Selector({"type", "slice", "makethin"}, None, "quadrupole", TRUE, 0, 2, TRUE,
               FALSE, "uniform"),
      Selector({"density"}, None, None, TRUE, 2, 1, FALSE, FALSE, "uniform"),
      Selector({"slice", "style", "use_at"}, None, None, FALSE, 0, 2, FALSE, FALSE,
               "loop") }

InitText ==
    \E rf \in ReferItems, body \in [1..MaxText -> TextBodyItems],
       slicing \in SeqsUpTo(TextRuleItems, 1) :
        /\ heap = InitDoc(rf, body).h
        /\ doc = InitDoc(rf, body).doc
        /\ selectors = slicing
        /\ rules = <<>>
        /\ defs = EmptyArgs
        /\ out = <<>>
        /\ ni = 1
        /\ pc = "init"
        /\ head = 0
        /\ refer = Zero
        /\ k = 1
        /\ position = Zero
        /\ templates = <<>>
        /\ elements = <<>>
        /\ calls = <<>>
        /\ arg = <<>>
        /\ res = <<>>
        /\ err = "none"

SpecText == InitText /\ [][Next]_vars

----------------------------------------------------------------------------
(* Document.parse_line on the lines of a file (document.py).  A line is    *)
(* the statements that end with a semicolon, the text left after the last  *)
(* semicolon and the comment that starts at the first exclamation mark.    *)
(* A statement is given with the element regex.cmd reads from it, or as    *)
(* the text it is when regex.cmd does not match.                           *)

MaxCmds == 2

MaxLines == 2

\* the statements of a line
CmdItems ==
    { ElemItem(Element("D1", "drift", [l |-> One], 0)),
      ElemItem(Element(None, "endsequence", EmptyArgs, 0)),
      TextItem("L1: LINE=(D1,D1)") }

\* the lines of a file
LineItems ==
    { [cmds |-> c, rest |-> r, comment |-> t] :
        c \in SeqsUpTo(CmdItems, MaxCmds), r \in {"", "D1: drift,"},
        t \in {None, "! note"} }

InitParse ==
    \E lines \in SeqsUpTo(LineItems, MaxLines) \ {<<>>} :
        /\ arg = [lines |-> lines]
        /\ heap = <<>>
        /\ out = <<>>
        /\ ni = 1
        /\ k = 1
        /\ pc = "line"
        /\ err = "none"
        /\ doc = <<>>
        /\ selectors = <<>>
        /\ rules = <<>>
        /\ defs = EmptyArgs
        /\ head = 0
        /\ refer = Zero
        /\ position = Zero
        /\ templates = <<>>
        /\ elements = <<>>
        /\ calls = <<>>
        /\ res = <<>>

CurLine == arg.lines[ni]

\* code, comment = comment_split(line); if comment: yield Text(comment)
YieldComment ==
    /\ pc = "line"
    /\ ni <= Len(arg.lines)
    /\ out' = IF CurLine.comment # None
              THEN Append(out, TextNode(CurLine.comment))
              ELSE out
    /\ pc' = "split"
    /\ UNCHANGED <<heap, selectors, rules, defs, doc, ni, head, refer, k,
                   position, templates, elements, calls, arg, res, err>>

\* commands = code.strip().split(';'); a text after the last semicolon is
\* a ValueError
SplitCommands ==
    /\ pc = "split"
    /\ IF CurLine.rest # ""
       THEN pc' = "error" /\ err' = "ValueError"
       ELSE pc' = "command" /\ err' = err
    /\ k' = 1
    /\ UNCHANGED <<heap, selectors, rules, defs, doc, out, ni, head, refer,
                   position, templates, elements, calls, arg, res>>

\* yield Element.parse(command + ';'), or Text(command + ';') when the
\* statement is no element
YieldCommand ==
    /\ pc = "command"
    /\ k <= Len(CurLine.cmds)
    /\ IF CurLine.cmds[k].kind = "elem"
       THEN /\ heap' = Append(heap, CurLine.cmds[k].el)
            /\ out' = Append(out, ElemNode(Len(heap) + 1))
       ELSE /\ heap' = heap
            /\ out' = Append(out, TextNode(CurLine.cmds[k].s \o ";"))
    /\ k' = k + 1
    /\ UNCHANGED <<selectors, rules, defs, doc, ni, pc, head, refer,
                   position, templates, elements, calls, arg, res, err>>

\* the end of parse_line: an empty line gives Text('')
EndLine ==
    /\ pc = "command"
    /\ k > Len(CurLine.cmds)
    /\ out' = IF CurLine.cmds = <<>> /\ CurLine.comment = None
              THEN Append(out, TextNode(""))
              ELSE out
    /\ ni' = ni + 1
    /\ pc' = IF ni + 1 > Len(arg.lines) THEN "done" ELSE "line"
    /\ UNCHANGED <<heap, selectors, rules, defs, doc, head, refer, k,
                   position, templates, elements, calls, arg, res, err>>

NextParse == YieldComment \/ SplitCommands \/ YieldCommand \/ EndLine

SpecParse == InitParse /\ [][NextParse]_vars

----------------------------------------------------------------------------
(* Properties.                                                             *)

\* the selector the rule of index j was made from
SelOf(j) == IF j <= Len(selectors) THEN selectors[j] ELSE EmptySelector

\* the value a selector gives a boolean option, d when the key is absent
Opt(sel, key, d) == IF key \in sel.keys THEN sel[key] ELSE d

\* the length of an element, resolved through its base chain, 0 when absent
LengthOf(id) == Element_get(heap, id, "l", Zero)

\* the position of a call's element comes from its at
UsesAt(c) ==
    Opt(SelOf(c.rule), "use_at", TRUE) /\ Element_contains(heap, c.id, "at")

\* a call that returned, made by a rule of the uniform style
Uniform(c) == c.err = "none" /\ Opt(SelOf(c.rule), "style", "uniform") = "uniform"

\* the j-th element a call emitted
Emitted(c, j) == heap[c.elems[j].id]

\* offset + (i + refer) * slice_len, in decimal arithmetic
AtOf(c, i) == DAdd(c.offset, DMul(DAdd(Dec(i, 0), c.refer), c.slice_len))

\* 1 / N, in decimal arithmetic
Ratio(c) == DDiv(One, Dec(c.slice_num, 0))

\* d as an integer number of units of 10^-(DecPrec + 4): exact for the values
\* of the model
Units(d) == d.c * Pow10(d.e + DecPrec + 4)

----------------------------------------------------------------------------
\* C8: rescale_makethin applied to a quadrupole with K1=3 and L=2.5 at ratio
\* 0.5 returns an element of type multipole whose KNL equals [0, 7.5] and
\* which no longer has K1.
C8_Case ==
    /\ pc = "done"
    /\ res.fn = "rescale_makethin"
    /\ arg.ratio = Half
    /\ heap[arg.id] = Element(None, "QUADRUPOLE", [k1 |-> Dec(3, 0), l |-> Dec(25, -1)], 0)

C8_MakethinQuadrupole ==
    C8_Case =>
        /\ heap[res.id].type = "multipole"
        /\ "k1" \notin DOMAIN heap[res.id].args
        /\ "knl" \in DOMAIN heap[res.id].args
        /\ heap[res.id].args["knl"] = Arr(<<Zero, Dec(75, -1)>>)

\* what the code returns there: KNL = [0, K1 * L * ratio] = [0, 3.75]
C8_CodeResult ==
    C8_Case =>
        /\ heap[res.id].type = "multipole"
        /\ "k1" \notin DOMAIN heap[res.id].args
        /\ heap[res.id].args["knl"] = Arr(<<Zero, Dec(375, -2)>>)

----------------------------------------------------------------------------
\* C9: rescale_thick(elem, ratio) returns an element of the same name and
\* type whose L is elem's L multiplied by ratio and, when the element's
\* base_type is sbend, whose angle is multiplied by ratio, every other
\* argument unchanged; for ratio 1 the result is elem.  (The call fails with
\* a key error exactly when ratio # 1 and the element defines no L, or is an
\* sbend and defines no angle.)
C9_Case == pc # "rescale" /\ res.fn = "rescale_thick"

C9_IsSbend == Lower(base_type(heap, arg.id)) = "sbend"

C9_Defined ==
    /\ Element_contains(heap, arg.id, "l")
    /\ C9_IsSbend => Element_contains(heap, arg.id, "angle")

C9_Expected(key) ==
    IF key = "l" THEN DMul(Element_getitem(heap, arg.id, "l").v, arg.ratio)
    ELSE IF key = "angle" /\ C9_IsSbend
    THEN DMul(Element_getitem(heap, arg.id, "angle").v, arg.ratio)
    ELSE heap[arg.id].args[key]

C9_RescaleThick ==
    C9_Case =>
        IF arg.ratio = One THEN res.err = "none" /\ res.id = arg.id
        ELSE IF ~C9_Defined THEN res.err = "KeyError"
        ELSE /\ res.err = "none"
             /\ res.id # arg.id
             /\ heap[res.id].name = heap[arg.id].name
             /\ heap[res.id].type = heap[arg.id].type
             /\ heap[res.id].base = heap[arg.id].base
             /\ DOMAIN heap[res.id].args =
                    (DOMAIN heap[arg.id].args) \cup {"l"}
                        \cup (IF C9_IsSbend THEN {"angle"} ELSE {})
             /\ \A key \in DOMAIN heap[res.id].args :
                    heap[res.id].args[key] = C9_Expected(key)

C9_Witness ==
    /\ C9_Case
    /\ arg.ratio = Half
    /\ C9_IsSbend
    /\ res.err = "none"
    /\ heap[arg.id].args["angle"] = Dec(314, -2)
    /\ heap[res.id].args["angle"] = Dec(157, -2)
    /\ "hgap" \in DOMAIN heap[res.id].args

----------------------------------------------------------------------------
\* C3: constructing an ElementTransform from a selector that contains both
\* name and type, or both density and slice, fails with an
\* AmbiguousSelectorError; no rule object is produced for such a selector.
C3_Ambiguous(sel) ==
    \/ {"name", "type"} \subseteq sel.keys
    \/ {"density", "slice"} \subseteq sel.keys

C3_AmbiguousSelectorRejected ==
    (pc # "init" /\ \E i \in 1..Len(selectors) : C3_Ambiguous(selectors[i]))
        => (pc = "error" /\ err = "AmbiguousSelectorError" /\ rules = <<>>)

----------------------------------------------------------------------------
\* C4: for each real body element exactly one rule is applied: the first
\* rule of the list (the caller's rules in their order, then the catch-all)
\* whose match predicate accepts the element; the catch-all is used only
\* when no supplied rule matches.
C4_RealBefore(n) == {j \in 1..(n - 1) : CurBody[j].kind = "elem"}

C4_OneCallPerElement ==
    pc = "body" => Len(calls) = Cardinality(C4_RealBefore(k))

C4_First(c) ==
    /\ c.rule \in 1..Len(rules)
    /\ match(rules[c.rule], heap, c.id)
    /\ \A j \in 1..(c.rule - 1) : ~match(rules[j], heap, c.id)
    /\ c.rule = Len(rules) <=>
           \A j \in 1..Len(selectors) : ~match(rules[j], heap, c.id)

\* the applied rule decides the outcome: its slice count and its template
C4_Effect(c) ==
    /\ c.slice_num = slice_num_or_1(get_slice_num(rules[c.rule], LengthOf(c.id)))
    /\ c.err = "none" => (c.templ # <<>> <=> rules[c.rule].template)

C4_FirstMatchingRule ==
    /\ C4_OneCallPerElement
    /\ \A i \in 1..Len(calls) : C4_First(calls[i]) /\ C4_Effect(calls[i])

C4_Witness ==
    /\ pc = "done"
    /\ Len(selectors) = 2
    /\ \E i \in 1..Len(calls) :
          /\ calls[i].rule = 1
          /\ match(rules[2], heap, calls[i].id)
          /\ rules[2].slice # rules[1].slice
          /\ calls[i].slice_num = rules[1].slice

----------------------------------------------------------------------------
\* C5: a rule with name matches an element exactly when the element's name
\* equals the selector name, case-insensitively; a rule with type (and no
\* name) matches exactly when the type at the root of the element's base
\* chain equals the selector type, case-insensitively; a rule with neither
\* matches every element.
RECURSIVE C5_RootType(_, _)
C5_RootType(id, n) ==
    IF heap[id].base = 0 \/ n = 0 THEN heap[id].type
    ELSE C5_RootType(heap[id].base, n - 1)

C5_Matches(sel, id) ==
    IF "name" \in sel.keys
    THEN heap[id].name # None /\ Lower(heap[id].name) = Lower(sel.name)
    ELSE IF "type" \in sel.keys
    THEN Lower(C5_RootType(id, Len(heap))) = Lower(sel.type)
    ELSE TRUE

C5_RuleMatching ==
    \A i \in 1..Len(calls) :
        /\ C5_Matches(SelOf(calls[i].rule), calls[i].id)
        /\ \A j \in 1..(calls[i].rule - 1) : ~C5_Matches(SelOf(j), calls[i].id)

\* an element declared with the user-defined type MQ (MQ: QUADRUPOLE) is
\* passed over by the rule for type mq and taken by the rule for quadrupole
C5_Witness ==
    \E i \in 1..Len(calls) :
        /\ heap[calls[i].id].type = "MQ"
        /\ heap[calls[i].id].base # 0
        /\ calls[i].rule = 2
        /\ SelOf(1).keys = {"type", "slice"} /\ SelOf(1).type = "mq"
        /\ SelOf(2).keys = {"type", "slice"} /\ SelOf(2).type = "quadrupole"

----------------------------------------------------------------------------
\* C6: with use_at true (the default) an element that has an at (its own or
\* its base's) is placed at the entry offset at - L*refer, the running
\* offset being ignored; with use_at false, or with no at, it is placed at
\* the running offset.  The first emitted element lies at
\* offset + refer*slice_len.
C6_Placed(c) ==
    /\ c.offset = IF UsesAt(c)
                  THEN DSub(Element_getitem(heap, c.id, "at").v,
                            DMul(LengthOf(c.id), c.refer))
                  ELSE c.offset0
    /\ (Uniform(c) /\ c.slice_num >= 1) =>
           Emitted(c, 1).args["at"] = AtOf(c, 0)

C6_EntryOffset == \A i \in 1..Len(calls) : C6_Placed(calls[i])

C6_Witness ==
    \E i \in 1..Len(calls) :
        /\ UsesAt(calls[i])
        /\ calls[i].refer = Half
        /\ LengthOf(calls[i].id) = Dec(2, 0)
        /\ calls[i].offset0 = Dec(15, -1)
        /\ calls[i].offset = Dec(4, 0)
        /\ calls[i].err = "none"

----------------------------------------------------------------------------
\* C10: with template true (uniform style) a call emits one template, the
\* rescaled element under the element's name, and N unnamed elements whose
\* type is the template's name, whose base is the template and whose only
\* own argument is at; with template false no template is emitted and each
\* of the N elements carries the rescaled element's arguments plus at.
C10_Scaled(c) ==
    /\ heap[c.scaled].name = c.before.name
    /\ ~Opt(SelOf(c.rule), "makethin", FALSE) =>
           IF c.slice_num = 1 THEN c.scaled = c.id
           ELSE Element_get(heap, c.scaled, "l", None) = DMul(LengthOf(c.id), Ratio(c))

C10_Reference(c, j) ==
    /\ c.elems[j].kind = "elem"
    /\ Emitted(c, j).name = None
    /\ Emitted(c, j).type = c.before.name
    /\ Emitted(c, j).base = c.scaled
    /\ Emitted(c, j).args = Put(EmptyArgs, "at", AtOf(c, j - 1))

C10_Full(c, j) ==
    /\ c.elems[j].kind = "elem"
    /\ Emitted(c, j).name =
           IF c.before.name # None /\ c.slice_num > 1
           THEN c.before.name \o ".." \o ToString(j - 1)
           ELSE c.before.name
    /\ Emitted(c, j).type = heap[c.scaled].type
    /\ Emitted(c, j).base = heap[c.scaled].base
    /\ Emitted(c, j).args = Put(heap[c.scaled].args, "at", AtOf(c, j - 1))

C10_Call(c) ==
    /\ Len(c.elems) = c.slice_num
    /\ C10_Scaled(c)
    /\ IF Opt(SelOf(c.rule), "template", FALSE)
       THEN c.templ = <<c.scaled>> /\ \A j \in 1..c.slice_num : C10_Reference(c, j)
       ELSE c.templ = <<>> /\ \A j \in 1..c.slice_num : C10_Full(c, j)

C10_TemplatePolicy ==
    \A i \in 1..Len(calls) : Uniform(calls[i]) => C10_Call(calls[i])

C10_Witness ==
    \E i \in 1..Len(calls) :
        /\ Uniform(calls[i])
        /\ Opt(SelOf(calls[i].rule), "template", FALSE)
        /\ calls[i].slice_num = 2
        /\ calls[i].before.name = "B1"
        /\ calls[i].before.type = "MB"
        /\ Len(templates) = 1
        /\ heap[templates[1]].name = "B1"
        /\ heap[templates[1]].args["l"] = Dec(15, -1)
        /\ Emitted(calls[i], 2).type = "B1"

----------------------------------------------------------------------------
\* C7 (as stated): under the uniform style the lengths L carried by the N
\* emitted slices sum to the element's L, and their at values increase
\* strictly in steps of slice_len = L/N.
RECURSIVE C7_Sum(_, _)
C7_Sum(c, n) ==
    IF n = 0 THEN 0 ELSE C7_Sum(c, n - 1) + Units(LengthOf(c.elems[n].id))

C7_Step(c, j) == Units(Emitted(c, j + 1).args["at"]) - Units(Emitted(c, j).args["at"])

C7_Original ==
    \A i \in 1..Len(calls) :
        Uniform(calls[i]) =>
            /\ Len(calls[i].elems) = calls[i].slice_num
            /\ C7_Sum(calls[i], calls[i].slice_num) = Units(LengthOf(calls[i].id))
            /\ \A j \in 1..(calls[i].slice_num - 1) :
                   /\ C7_Step(calls[i], j) = Units(calls[i].slice_len)
                   /\ C7_Step(calls[i], j) > 0

\* C7 (amended): under the uniform style the N emitted slices lie at
\* offset + (i + refer)*slice_len, slice_len = L/N.  Without makethin each
\* slice carries L*(1/N) (L itself when N = 1); with makethin the slices of
\* an sbend, quadrupole or solenoid carry no length (L absent or 0) and the
\* slices of any other element keep the whole L.  When no decimal operation
\* involved rounds, the lengths of thick slices sum to L and consecutive at
\* values differ by slice_len exactly, strictly increasing when L > 0.
C7_Thin(c) ==
    Lower(base_type(heap, c.id)) \in {"sbend", "quadrupole", "solenoid"}

C7_ExactAt(c, i) ==
    /\ ~AddR(Dec(i, 0), c.refer).inexact
    /\ ~MulR(DAdd(Dec(i, 0), c.refer), c.slice_len).inexact
    /\ ~AddR(c.offset, DMul(DAdd(Dec(i, 0), c.refer), c.slice_len)).inexact

C7_Exact(c) ==
    /\ ~DivR(One, Dec(c.slice_num, 0)).inexact
    /\ ~MulR(LengthOf(c.id), Ratio(c)).inexact
    /\ ~DivR(LengthOf(c.id), Dec(c.slice_num, 0)).inexact
    /\ \A i \in 0..(c.slice_num - 1) : C7_ExactAt(c, i)

C7_Lengths(c) ==
    IF ~Opt(SelOf(c.rule), "makethin", FALSE)
    THEN /\ \A j \in 1..c.slice_num :
               LengthOf(c.elems[j].id) =
                   IF c.slice_num = 1 THEN LengthOf(c.id)
                   ELSE DMul(LengthOf(c.id), Ratio(c))
         /\ C7_Exact(c) => C7_Sum(c, c.slice_num) = Units(LengthOf(c.id))
    ELSE \A j \in 1..c.slice_num :
               LengthOf(c.elems[j].id) =
                   IF C7_Thin(c) THEN Zero ELSE LengthOf(c.id)

C7_Positions(c) ==
    /\ c.slice_len = DDiv(LengthOf(c.id), Dec(c.slice_num, 0))
    /\ \A j \in 1..c.slice_num : Emitted(c, j).args["at"] = AtOf(c, j - 1)
    /\ C7_Exact(c) =>
           \A j \in 1..(c.slice_num - 1) :
               /\ C7_Step(c, j) = Units(c.slice_len)
               /\ DLess(Zero, LengthOf(c.id)) => C7_Step(c, j) > 0

C7_UniformSlices ==
    \A i \in 1..Len(calls) :
        Uniform(calls[i]) =>
            /\ Len(calls[i].elems) = calls[i].slice_num
            /\ C7_Lengths(calls[i])
            /\ C7_Positions(calls[i])

C7_Witness ==
    \E i \in 1..Len(calls) :
        /\ Uniform(calls[i])
        /\ ~Opt(SelOf(calls[i].rule), "makethin", FALSE)
        /\ calls[i].slice_num = 2
        /\ C7_Exact(calls[i])
        /\ LengthOf(calls[i].id) = Dec(3, 0)
        /\ calls[i].refer = Half
        /\ C7_Sum(calls[i], 2) = Units(Dec(3, 0))
        /\ C7_Step(calls[i], 1) = Units(Dec(15, -1))

----------------------------------------------------------------------------
\* a call made by a rule that gives a slice count N > 1 and nothing else that
\* changes the output (no density, makethin, template or style), on a named
\* element that has a length
C1_Case(c) ==
    /\ c.err = "none"
    /\ c.before.name # None
    /\ Element_contains(heap, c.id, "l")
    /\ "slice" \in SelOf(c.rule).keys
    /\ SelOf(c.rule).keys \cap {"density", "makethin", "template", "style"} = {}
    /\ SelOf(c.rule).slice > 1

C1_N(c) == SelOf(c.rule).slice

C1_Named(c, j) ==
    /\ c.elems[j].kind = "elem"
    /\ Emitted(c, j).name = c.before.name \o ".." \o ToString(j - 1)
    /\ Emitted(c, j).type = c.before.type

C1_At(c, j, len) == DAdd(c.offset, DMul(DAdd(Dec(j - 1, 0), c.refer), len))

\* C1 (as stated): for a named element of length L matched by a rule with
\* slice count N > 1 exactly N elements name..0 to name..N-1 are emitted,
\* each with L/N, at = offset + (i + refer)*(L/N) and all other arguments of
\* the original.
C1_Original ==
    \A i \in 1..Len(calls) :
        C1_Case(calls[i]) =>
            /\ Len(calls[i].elems) = C1_N(calls[i])
            /\ \A j \in 1..C1_N(calls[i]) :
                   /\ C1_Named(calls[i], j)
                   /\ Emitted(calls[i], j).args =
                          Put(Put(calls[i].before.args, "l",
                                  DDiv(LengthOf(calls[i].id), Dec(C1_N(calls[i]), 0))),
                              "at",
                              C1_At(calls[i], j,
                                    DDiv(LengthOf(calls[i].id), Dec(C1_N(calls[i]), 0))))

\* the arguments a thick slice has besides at
C1_Scaled(c) ==
    IF Lower(base_type(heap, c.id)) = "sbend"
    THEN Put(Put(c.before.args, "l", DMul(LengthOf(c.id), DDiv(One, Dec(C1_N(c), 0)))),
             "angle",
             DMul(Element_getitem(heap, c.id, "angle").v, DDiv(One, Dec(C1_N(c), 0))))
    ELSE Put(c.before.args, "l", DMul(LengthOf(c.id), DDiv(One, Dec(C1_N(c), 0))))

RECURSIVE C1_Flatten(_)
C1_Flatten(n) == IF n = 0 THEN <<>> ELSE C1_Flatten(n - 1) \o calls[n].elems

C1_IsElem(node) == node.kind = "elem"

\* C1 (amended): for a named element of length L matched by a rule with
\* slice count N > 1 (and no template or makethin) exactly N elements
\* name..0 to name..N-1 are emitted into the sequence, each with the
\* length L*(1/N) (which is L/N when 1/N is exact), with
\* at = offset + (i + refer)*(L/N), for an sbend with the angle multiplied
\* by 1/N, and with all other arguments of the original.
C1_SlicesEmitted ==
    /\ pc = "body" => SelectSeq(elements, C1_IsElem) = C1_Flatten(Len(calls))
    /\ \A i \in 1..Len(calls) :
        C1_Case(calls[i]) =>
            /\ Len(calls[i].elems) = C1_N(calls[i])
            /\ \A j \in 1..C1_N(calls[i]) :
                   /\ C1_Named(calls[i], j)
                   /\ Emitted(calls[i], j).args =
                          Put(C1_Scaled(calls[i]), "at",
                              C1_At(calls[i], j,
                                    DDiv(LengthOf(calls[i].id), Dec(C1_N(calls[i]), 0))))

\* Q1: QUADRUPOLE, L=2, K1=3, at=0 under refer=entry and the rule
\* {type: quadrupole, slice: 2}: Q1..0 at 0 and Q1..1 at 1, each with L=1, K1=3
C1_Witness ==
    /\ pc = "done"
    /\ Len(calls) = 1
    /\ refer = Zero
    /\ C1_Case(calls[1])
    /\ SelOf(calls[1].rule).keys = {"type", "slice"}
    /\ Len(out) = 3
    /\ Len(out[3].elems) = 4
    /\ heap[out[3].elems[1].id].args["l"] = Dec(2, 0)
    /\ heap[out[3].elems[2].id] =
           Element("Q1..0", "QUADRUPOLE", [l |-> One, k1 |-> Dec(3, 0), at |-> Zero], 0)
    /\ heap[out[3].elems[3].id] =
           Element("Q1..1", "QUADRUPOLE", [l |-> One, k1 |-> Dec(3, 0), at |-> One], 0)

----------------------------------------------------------------------------
\* C2 (as stated): the head of the transformed sequence has L equal to the
\* sum of the lengths of the original body elements, elements without L
\* counting 0.
RECURSIVE C2_Units(_)
C2_Units(n) == IF n = 0 THEN 0 ELSE C2_Units(n - 1) + Units(LengthOf(calls[n].id))

C2_HeadL == heap[out[Len(out)].elems[1].id].args["l"]

C2_Original == pc = "done" => Units(C2_HeadL) = C2_Units(Len(calls))

RECURSIVE C2_Sum(_)
C2_Sum(n) == IF n = 0 THEN Zero ELSE DAdd(C2_Sum(n - 1), LengthOf(calls[n].id))

\* C2 (amended): the head of the transformed sequence is a copy of the
\* original head whose L is the end of the last real body element, its entry
\* offset plus its length, and 0 for a body without real elements; when no
\* element is positioned by its at this is the (decimal) sum of the lengths
\* of the body elements, elements without L counting 0.
C2_HeadLength ==
    pc = "done" =>
        /\ out[Len(out)].elems[1].id # doc[Len(doc)].elems[1].id
        /\ "l" \notin DOMAIN heap[doc[Len(doc)].elems[1].id].args
        /\ C2_HeadL = IF calls = <<>> THEN Zero
                      ELSE DAdd(calls[Len(calls)].offset,
                                LengthOf(calls[Len(calls)].id))
        /\ (\A i \in 1..Len(calls) : ~UsesAt(calls[i])) =>
               C2_HeadL = C2_Sum(Len(calls))

C2_Witness ==
    /\ pc = "done"
    /\ Len(calls) = 2
    /\ \A i \in 1..2 : ~UsesAt(calls[i]) /\ calls[i].slice_num = 2
    /\ LengthOf(calls[1].id) = Dec(3, 0)
    /\ LengthOf(calls[2].id) = Dec(2, 0)
    /\ C2_HeadL = Dec(5, 0)

----------------------------------------------------------------------------
\* C11: the template emitted by a rule with template true has no at
\* argument, for every input element, including elements that carried an
\* explicit at and including slice count 1.
C11_TemplateStripped ==
    \A i \in 1..Len(calls) :
        (calls[i].err = "none" /\ Opt(SelOf(calls[i].rule), "template", FALSE)) =>
            /\ Len(calls[i].templ) = 1
            /\ "at" \notin DOMAIN heap[calls[i].templ[1]].args

----------------------------------------------------------------------------
\* C12: with style loop a call emits exactly five nodes in this order,
\* whatever the slice count N: text "i = 0;", text "while (i < N) {", one
\* unnamed element whose at is the composed expression
\* offset + ((i + refer) * slice_len) built from Identifier i, text
\* "i = i + 1;", text "}".
C12_Loop(c) == c.err = "none" /\ Opt(SelOf(c.rule), "style", "uniform") = "loop"

C12_AtExpr(c) ==
    << NumTok(c.offset), SymTok("+"), SymTok("("), SymTok("("), SymTok("i"),
       SymTok("+"), NumTok(c.refer), SymTok(")"), SymTok("*"),
       NumTok(c.slice_len), SymTok(")") >>

C12_Nodes(c) ==
    /\ Len(c.elems) = 5
    /\ c.elems[1] = [kind |-> "text", s |-> "i = 0;"]
    /\ c.elems[2] = [kind |-> "text",
                     s |-> "while (i < " \o ToString(c.slice_num) \o ") {"]
    /\ c.elems[3].kind = "elem"
    /\ Emitted(c, 3).name = None
    /\ "at" \in DOMAIN Emitted(c, 3).args
    /\ IsValue(Emitted(c, 3).args["at"])
    /\ Emitted(c, 3).args["at"].composed
    /\ Emitted(c, 3).args["at"].expr = C12_AtExpr(c)
    /\ c.elems[4] = [kind |-> "text", s |-> "i = i + 1;"]
    /\ c.elems[5] = [kind |-> "text", s |-> "}"]

C12_LoopStyle == \A i \in 1..Len(calls) : C12_Loop(calls[i]) => C12_Nodes(calls[i])

C12_Witness ==
    \E i \in 1..Len(calls) :
        /\ C12_Loop(calls[i])
        /\ calls[i].slice_num = MaxSlice
        /\ calls[i].refer = Half
        /\ calls[i].before.name = "Q1"
        /\ calls[i].elems[2].s = "while (i < " \o ToString(MaxSlice) \o ") {"

----------------------------------------------------------------------------
\* C13: with an empty rule list (only the catch-all) every real body element
\* gives exactly one output element with the same name, type and arguments
\* except at, which is entry_offset + refer*L; nothing is renamed and no
\* template is produced.
C13_Same(c) ==
    /\ c.err = "none"
    /\ c.templ = <<>>
    /\ Len(c.elems) = 1
    /\ c.elems[1].kind = "elem"
    /\ Emitted(c, 1).name = c.before.name
    /\ Emitted(c, 1).type = c.before.type
    /\ Emitted(c, 1).args =
           Put(c.before.args, "at", DAdd(c.offset, DMul(c.refer, LengthOf(c.id))))

C13_CatchAllOnly ==
    (selectors = <<>> /\ pc \in {"body", "doc", "done"}) =>
        /\ \A i \in 1..Len(calls) : C13_Same(calls[i])
        /\ templates = <<>>
        /\ pc = "body" => Len(elements) = k - 1
        /\ pc = "done" => /\ out[Len(out)].preface = <<>>
                          /\ Len(out[Len(out)].elems) = Len(doc[Len(doc)].elems)

C13_Witness ==
    /\ pc = "done"
    /\ selectors = <<>>
    /\ Len(calls) = 2
    /\ calls[1].before.name = "B1"
    /\ calls[2].before.name = "D1"
    /\ calls[2].refer = Half
    /\ Emitted(calls[2], 1).args = [l |-> One, at |-> Dec(5, 0)]
    /\ Emitted(calls[1], 1).args = [l |-> Dec(3, 0), angle |-> One, at |-> Dec(15, -1)]

----------------------------------------------------------------------------
\* the assign marker of an operand; a plain number has none and counts as =
Marker(v) == IF IsValue(v) THEN v._assign ELSE "="

\* C16: combining two values with +, -, * or / yields a Composed whose
\* assign marker is := if and only if at least one operand's marker is :=,
\* and = otherwise, through any nesting of compositions.
C16_DeferredMarker ==
    (pc = "value" /\ k > 0) =>
        /\ res.composed
        /\ res._assign \in {"=", ":="}
        /\ res._assign = ":=" <=> (Marker(arg.a) = ":=" \/ Marker(arg.b) = ":=")

----------------------------------------------------------------------------
\* C17: binary composition is textual: the result's text is render(a), the
\* operator, render(b), where a Composed operand is rendered inside
\* parentheses and an atomic operand (number, identifier) without; e.g.
\* -13 + (12 * pi) for i + f*s and pi / pi for s / s.
C17_Render(v) ==
    IF ~IsValue(v) THEN <<NumTok(v)>>
    ELSE IF v.composed THEN <<SymTok("(")>> \o v.expr \o <<SymTok(")")>>
    ELSE v.expr

C17_TextualComposition ==
    (pc = "value" /\ k > 0) =>
        /\ res.composed
        /\ res.expr = C17_Render(arg.a) \o <<SymTok(arg.x)>> \o C17_Render(arg.b)

\* i + f*s with i = -13, f = Decimal('12.0'), s = Identifier('pi')
C17_Witness ==
    /\ pc = "value"
    /\ k = 2
    /\ arg.a = Dec(-13, 0)
    /\ arg.b.composed
    /\ res.expr = << NumTok(Dec(-13, 0)), SymTok("+"), SymTok("("),
                     NumTok(Dec(12, 0)), SymTok("*"), SymTok("pi"), SymTok(")") >>

----------------------------------------------------------------------------
\* the layer defines the key, keys compared case-insensitively
Defines(h, id, key) == \E x \in DOMAIN h[id].args : Lower(x) = Lower(key)

\* the value the layer gives the key
ValueAt(h, id, key) ==
    h[id].args[CHOOSE x \in DOMAIN h[id].args : Lower(x) = Lower(key)]

\* the nearest layer of the chain from id that defines the key, 0 if none
RECURSIVE Nearest(_, _, _)
Nearest(h, id, key) ==
    IF id = 0 THEN 0
    ELSE IF Defines(h, id, key) THEN id
    ELSE Nearest(h, h[id].base, key)

\* C14: elem[key] and get(key) return the value from the nearest layer of
\* the chain own args, base, base's base, ... that defines the key (keys
\* compared case-insensitively); when no layer defines it, indexing raises a
\* key error and get returns the default.
C14_Result(fn, near) ==
    IF near # 0
    THEN res.err = "none" /\ res.v = ValueAt(heap, near, arg.key)
    ELSE IF fn = "getitem" THEN res.err = "KeyError"
    ELSE /\ res.err = "none"
         /\ res.v = IF arg.defaults = <<>> THEN NoneValue ELSE arg.defaults[1]

C14_PrototypeLookup ==
    (pc # "element" /\ res.fn \in {"getitem", "get"}) =>
        C14_Result(res.fn, Nearest(heap, arg.id, arg.key))

----------------------------------------------------------------------------
\* C15: pop(key) removes the key only from the element's own args and
\* returns its value when present there; when absent from own args it
\* returns the base chain's value without removing anything from any base;
\* when absent everywhere it returns the caller's default if given and
\* otherwise signals a key error, also when the element has no base at all.
\* (Stated for chains of case-insensitive dictionaries.)
C15_Own == Defines(res.before, arg.id, arg.key)

C15_Base == Nearest(res.before, res.before[arg.id].base, arg.key)

C15_Pop ==
    (pc # "element" /\ res.fn = "pop" /\ arg.plain = {}) =>
        IF C15_Own
        THEN /\ res.err = "none"
             /\ res.v = ValueAt(res.before, arg.id, arg.key)
             /\ heap = [res.before EXCEPT ![arg.id].args = Del(@, Lower(arg.key))]
        ELSE /\ heap = res.before
             /\ IF C15_Base # 0
                THEN res.err = "none" /\ res.v = ValueAt(res.before, C15_Base, arg.key)
                ELSE IF arg.defaults # <<>>
                THEN res.err = "none" /\ res.v = arg.defaults[1]
                ELSE res.err = "KeyError"

\* the nodes of a document, the nodes of every Sequence in place of it
RECURSIVE Flatten(_)
Flatten(d) ==
    IF d = <<>> THEN <<>>
    ELSE IF Head(d).kind = "seq" THEN Head(d).elems \o Flatten(Tail(d))
    ELSE <<Head(d)>> \o Flatten(Tail(d))

\* the list, read from node i on, ends inside a sequence
RECURSIVE Unterminated(_, _, _, _)
Unterminated(nodes, h, i, inside) ==
    IF i > Len(nodes) THEN inside
    ELSE IF inside
    THEN Unterminated(nodes, h, i + 1, ~stri_eq(node_type(h, nodes[i]), "endsequence"))
    ELSE Unterminated(nodes, h, i + 1, stri_eq(node_type(h, nodes[i]), "sequence"))

NoLine == \A i \in 1..Len(arg.nodes) : arg.nodes[i].kind # "line"

C18_Grouped(nd) ==
    IF nd.kind = "seq"
    THEN /\ Len(nd.elems) >= 2
         /\ stri_eq(node_type(heap, nd.elems[1]), "sequence")
         /\ stri_eq(node_type(heap, nd.elems[Len(nd.elems)]), "endsequence")
         /\ \A m \in 2..(Len(nd.elems) - 1) :
                ~stri_eq(node_type(heap, nd.elems[m]), "endsequence")
    ELSE ~stri_eq(node_type(heap, nd), "sequence")

\* C18: Sequence.detect on a list of elements and texts keeps every node, in
\* order; every element of type sequence opens a Sequence that runs up to
\* and including the next endsequence, so a Sequence starts with a sequence
\* element, ends with an endsequence element and holds no other endsequence,
\* and no sequence element stays outside a Sequence; detect fails exactly
\* when the list ends inside a sequence, and then yields no document.
C18_Detect ==
    /\ pc = "init" /\ NoLine =>
          /\ Flatten(doc) = arg.nodes
          /\ \A j \in 1..Len(doc) : C18_Grouped(doc[j])
    /\ pc = "init" => ~Unterminated(arg.nodes, heap, 1, FALSE)
    /\ pc = "error" /\ err = "AssertionError" =>
          Unterminated(arg.nodes, heap, 1, FALSE)
    /\ NoLine /\ Unterminated(arg.nodes, heap, 1, FALSE) /\ arg.i > Len(arg.nodes) =>
          pc = "error" /\ err = "AssertionError"

\* two elements around a sequence that has a body
C18_Witness ==
    /\ pc = "init"
    /\ NoLine
    /\ Len(doc) = 2
    /\ \E j \in 1..2 : doc[j].kind = "seq" /\ Len(doc[j].elems) = 3
    /\ \E j \in 1..2 : doc[j].kind = "elem"

\* the Line of the node list that the Sequence nd was made from, if any
LinesOf(nd) ==
    {i \in 1..Len(arg.nodes) :
        /\ arg.nodes[i].kind = "line"
        /\ nd.kind = "seq"
        /\ heap[nd.elems[1].id].name = arg.nodes[i].name}

\* the element of the node list that a name of a Line stands for
Named(name) == by_name(arg.nodes, heap, Len(arg.nodes))[Lower(name)].id

\* the sum of the lengths of the elements named in a Line
RECURSIVE SumNamed(_)
SumNamed(names) ==
    IF names = <<>> THEN Zero
    ELSE DAdd(Element_get(heap, Named(Head(names)), "l", Zero), SumNamed(Tail(names)))

C19_Expanded(j, ln) ==
    /\ Len(doc[j].elems) = Len(ln.elems) + 2
    /\ \A m \in 1..Len(ln.elems) :
          /\ doc[j].elems[m + 1].kind = "elem"
          /\ heap[doc[j].elems[m + 1].id].type = ln.elems[m]
          /\ heap[doc[j].elems[m + 1].id].base = Named(ln.elems[m])
    /\ pc = "done" =>
          heap[out[j].elems[1].id].args["l"] = SumNamed(ln.elems)

\* C19: without inline, a Line becomes a Sequence whose body holds one
\* reference per listed name, in order, each with the element of that name
\* as its base; the bases are still in place after Document.transform and
\* the L of the new head is the sum of the lengths of the named elements.
C19_LineExpansion ==
    ~arg.inline /\ pc \in {"init", "doc", "done"} =>
        \A j \in 1..Len(doc) : \A i \in LinesOf(doc[j]) :
            C19_Expanded(j, arg.nodes[i])

\* the top-level elements before node j of the document whose name is type
EarlierNamed(j, type) ==
    {i \in 1..(j - 1) :
        /\ doc[i].kind = "elem"
        /\ heap[doc[i].id].name # None
        /\ Lower(heap[doc[i].id].name) = Lower(type)}

\* the most recent of them, 0 for no base
EarlierBase(j, type) ==
    IF EarlierNamed(j, type) = {} THEN 0
    ELSE doc[CHOOSE i \in EarlierNamed(j, type) :
                 \A i2 \in EarlierNamed(j, type) : i2 <= i].id

\* a top-level element has just been visited
C20_TopVisited ==
    pc = "doc" /\ ni > 1 /\ doc[ni - 1].kind = "elem"

\* a body element has just been transformed
C20_BodyVisited ==
    pc = "body" /\ k > 1 /\ CurBody[k - 1].kind = "elem" /\ calls # <<>>

\* C20: when Document.transform visits an element, its base becomes the
\* most recent top-level element before it in the document whose name is
\* the element's type (case-insensitively), and no base when there is none:
\* for a top-level element and for an element of a sequence body alike.
C20_DefineBeforeUse ==
    /\ C20_TopVisited =>
          heap[doc[ni - 1].id].base = EarlierBase(ni - 1, heap[doc[ni - 1].id].type)
    /\ C20_BodyVisited =>
          calls[Len(calls)].before.base = EarlierBase(ni, calls[Len(calls)].before.type)

\* the same, but for a top-level element named as its own type
C20_ExceptSelfNamed ==
    /\ C20_TopVisited /\ ~stri_eq(heap[doc[ni - 1].id].type, heap[doc[ni - 1].id].name) =>
          heap[doc[ni - 1].id].base = EarlierBase(ni - 1, heap[doc[ni - 1].id].type)
    /\ C20_BodyVisited =>
          calls[Len(calls)].before.base = EarlierBase(ni, calls[Len(calls)].before.type)

\* following base from id reaches an element without base in at most fuel steps
RECURSIVE ChainEnds(_, _, _)
ChainEnds(h, id, fuel) ==
    IF h[id].base = 0 THEN TRUE
    ELSE IF fuel = 0 THEN FALSE
    ELSE ChainEnds(h, h[id].base, fuel - 1)

\* C21: whatever part of a document Document.transform has processed, the
\* base chain of every element ends at an element without base, so
\* base_type and the lookup of a key, present or absent, return or raise
\* KeyError and never recurse without end.
C21_Acyclic ==
    \A id \in 1..Len(heap) :
        /\ ChainEnds(heap, id, Len(heap))
        /\ base_type(heap, id) # "RecursionError"
        /\ \A key \in {"l", "at"} :
              getitem(heap, {}, id, key, Len(heap)).err # "RecursionError"

\* the elements of the document handed to Document.transform
DocIds ==
    UNION {IF doc[j].kind = "elem" THEN {doc[j].id}
           ELSE IF doc[j].kind = "seq"
           THEN {doc[j].elems[m].id : m \in {m \in 1..Len(doc[j].elems) :
                                                doc[j].elems[m].kind = "elem"}}
           ELSE {} : j \in 1..Len(doc)}

\* the step leaves name, type and arguments of element id as they are
C22_Kept(id) ==
    /\ heap'[id].name = heap[id].name
    /\ heap'[id].type = heap[id].type
    /\ heap'[id].args = heap[id].args

\* C22: no step of ElementTransform.slice or of SequenceTransform changes
\* the name, the type or the arguments of an element of the input document
\* (heads, body elements, the definitions they inherit from); the only
\* element a step ever writes to after its creation is the copy of the head
\* that receives L.
C22_CopyOnWrite ==
    [][/\ Len(heap') >= Len(heap)
       /\ \A id \in 1..Len(heap) : id \in DocIds \/ id # head => C22_Kept(id)]_vars

\* a body element was cut in two thick slices and a sequence head received
\* its L, and the input elements are as they were resolved
C22_Witness ==
    /\ pc = "done"
    /\ \E i \in 1..Len(calls) :
          /\ calls[i].err = "none"
          /\ calls[i].slice_num = 2
          /\ calls[i].scaled # calls[i].id
          /\ "l" \in DOMAIN heap[calls[i].id].args
          /\ heap[calls[i].scaled].args["l"] # heap[calls[i].id].args["l"]
          /\ heap[calls[i].id] = calls[i].before
    /\ "l" \in DOMAIN heap[head].args
    /\ head \notin DocIds

\* what Element.__eq__ compares: name, type and arguments
ElemValue(id) == [name |-> heap[id].name, type |-> heap[id].type, args |-> heap[id].args]

\* a list of elements and texts, every element by its value
NodesValue(nodes) ==
    [m \in 1..Len(nodes) |->
        IF nodes[m].kind = "elem" THEN ElemValue(nodes[m].id) ELSE nodes[m]]

\* a document, every element by its value
DocValue(d) ==
    [j \in 1..Len(d) |->
        IF d[j].kind = "seq"
        THEN [elems |-> NodesValue(d[j].elems), preface |-> NodesValue(d[j].preface)]
        ELSE IF d[j].kind = "elem" THEN ElemValue(d[j].id)
        ELSE d[j]]

\* both applications of Document.transform have returned
C23_Twice == pc = "done" /\ arg.pass = 2

\* no call of slice, in either application, cut an element or made a template
C23_Whole ==
    \A i \in 1..Len(calls) : calls[i].slice_num = 1 /\ calls[i].templ = <<>>

RECURSIVE ChainL(_, _, _)
ChainL(h, id, fuel) ==
    IF "l" \in DOMAIN h[id].args THEN <<h[id].args["l"]>>
    ELSE IF h[id].base = 0 \/ fuel = 0 THEN <<>>
    ELSE ChainL(h, h[id].base, fuel - 1)

\* the length slice has to use for the element of a call
C24_Length(c) ==
    IF ChainL(heap, c.id, Len(heap)) = <<>> THEN Zero
    ELSE ChainL(heap, c.id, Len(heap))[1]

C25_NoRefer ==
    /\ pc = "body"
    /\ "refer" \notin DOMAIN heap[Sequence_head(CurSeq).id].args

\* C25: SequenceTransform applied to a sequence whose head has no refer
\* argument uses the multiplier 0 of refer = entry, so every slice of the
\* uniform style is placed at the entry offset of the slice.
C25_DefaultEntry ==
    C25_NoRefer =>
        /\ refer = Zero
        /\ \A i \in 1..Len(calls) : Uniform(calls[i]) =>
              \A j \in 1..Len(calls[i].elems) :
                  Emitted(calls[i], j).args["at"] =
                      DAdd(calls[i].offset, DMul(Dec(j - 1, 0), calls[i].slice_len))

\* the outputs of the nodes of a body from node m on: a text stands for
\* itself, the next element for the nodes its call of slice returned
RECURSIVE C26_Outputs(_, _, _)
C26_Outputs(body, m, i) ==
    IF m > Len(body) THEN <<>>
    ELSE IF body[m].kind = "text" THEN <<body[m]>> \o C26_Outputs(body, m + 1, i)
    ELSE calls[i].elems \o C26_Outputs(body, m + 1, i + 1)

\* C26: Document.transform gives one node per top-level node, in order; a
\* node that is no Sequence is the input node itself; the body of a
\* transformed sequence is the outputs of its elements in order with every
\* text, unmodified, between the outputs of the elements it stood between;
\* and each element enters slice at the offset at which the element before
\* it ended, whatever texts lie between them.
C26_PassThrough ==
    /\ pc \in {"doc", "body", "done"} =>
          /\ Len(out) = ni - 1
          /\ \A j \in 1..Len(out) :
                IF doc[j].kind = "seq"
                THEN /\ out[j].kind = "seq"
                     /\ Sequence_body(out[j]) = C26_Outputs(Sequence_body(doc[j]), 1, 1)
                     /\ Sequence_tail(out[j]) = Sequence_tail(doc[j])
                ELSE out[j] = doc[j]
    /\ pc = "done" => Len(out) = Len(doc)
    /\ \A i \in 1..Len(calls) :
          calls[i].offset0 = IF i = 1 THEN Zero ELSE calls[i - 1].pos

\* an element cut in two, a text, and another element: the text is third of
\* the four body nodes of the output
C26_Witness ==
    /\ pc = "done"
    /\ Len(out) = 3
    /\ out[1].kind = "text"
    /\ out[2].kind = "elem"
    /\ Len(Sequence_body(doc[3])) = 3
    /\ Sequence_body(doc[3])[2].kind = "text"
    /\ Len(calls) = 2
    /\ Len(calls[1].elems) = 2
    /\ calls[2].offset0 # Zero
    /\ Len(Sequence_body(out[3])) = 4
    /\ Sequence_body(out[3])[3] = Sequence_body(doc[3])[2]

\* a delivered node by its value
C27_Value(n) == IF n.kind = "elem" THEN heap[n.id] ELSE n

\* the statements of a line in the order written, as delivered nodes
C27_Commands(cmds) ==
    [m \in 1..Len(cmds) |->
        IF cmds[m].kind = "elem" THEN cmds[m].el ELSE TextNode(cmds[m].s \o ";")]

\* the nodes of a line in source order: the statements, then the comment
C27_SourceOrder(ln) ==
    C27_Commands(ln.cmds)
        \o (IF ln.comment # None THEN <<TextNode(ln.comment)>> ELSE <<>>)
        \o (IF ln.cmds = <<>> /\ ln.comment = None THEN <<TextNode("")>> ELSE <<>>)

\* the nodes of the first n lines in source order
RECURSIVE C27_Expected(_, _)
C27_Expected(lines, n) ==
    IF n = 0 THEN <<>>
    ELSE C27_Expected(lines, n - 1) \o C27_SourceOrder(lines[n])

\* C27: once the lines are parsed, the delivered nodes are the nodes of the
\* lines in source order: within a line the statements in the order written
\* and after them the comment that follows them.
C27_ParseOrder ==
    pc = "done" =>
        [m \in 1..Len(out) |-> C27_Value(out[m])] = C27_Expected(arg.lines, Len(arg.lines))

\* the same, for lines that do not hold both a statement and a comment
C27_ExceptMixedLines ==
    /\ pc = "done"
    /\ \A n \in 1..Len(arg.lines) :
          arg.lines[n].cmds = <<>> \/ arg.lines[n].comment = None
    => [m \in 1..Len(out) |-> C27_Value(out[m])] = C27_Expected(arg.lines, Len(arg.lines))

\* the sum of the lengths of the elements of the first i calls
RECURSIVE C28_Lengths(_)
C28_Lengths(i) ==
    IF i = 0 THEN Zero ELSE DAdd(C28_Lengths(i - 1), LengthOf(calls[i].id))

\* C28: as long as no element of the body so far took its position from an
\* at (it has none, or its rule has use_at false), the entry offset slice
\* uses for an element is the sum of the lengths of the elements before it,
\* however they were cut and rescaled and whatever texts stand between them.
C28_Contiguous ==
    \A i \in 1..Len(calls) :
        (\A j \in 1..i : ~UsesAt(calls[j])) =>
            calls[i].offset = C28_Lengths(i - 1)

\* a quadrupole cut in two thin slices, a text, a drift that enters at 2
C28_Witness ==
    /\ pc = "done"
    /\ Len(calls) = 2
    /\ Sequence_body(doc[3])[2].kind = "text"
    /\ ~UsesAt(calls[1]) /\ ~UsesAt(calls[2])
    /\ calls[1].slice_num = 2
    /\ heap[calls[1].scaled].type = "multipole"
    /\ calls[2].offset = Dec(2, 0)

\* the elements a call of slice emitted
C29_Emitted(c) == {j \in 1..Len(c.elems) : c.elems[j].kind = "elem"}

\* C29: slice returns for every element without L in its base chain,
\* whatever the rule: the element is emitted at the offset it entered with
\* (when its rule is of the uniform style and reads no at) and the new
\* offset is the old one.
C29_NoLength ==
    \A i \in 1..Len(calls) :
        ChainL(heap, calls[i].id, Len(heap)) = <<>> =>
            /\ calls[i].err = "none"
            /\ calls[i].pos = calls[i].offset
            /\ C29_Emitted(calls[i]) # {}
            /\ Uniform(calls[i]) /\ ~UsesAt(calls[i]) =>
                  \A j \in C29_Emitted(calls[i]) :
                      Emitted(calls[i], j).args["at"] = calls[i].offset0

\* the same, for the calls whose rule keeps the element whole and thick
C29_NoLengthWhole ==
    \A i \in 1..Len(calls) :
        /\ ChainL(heap, calls[i].id, Len(heap)) = <<>>
        /\ calls[i].slice_num = 1
        /\ ~Opt(SelOf(calls[i].rule), "makethin", FALSE)
        => /\ calls[i].err = "none"
           /\ calls[i].pos = calls[i].offset
           /\ C29_Emitted(calls[i]) # {}

\* the slice count the selector of a call asks for, for the length L
C30_Asked(sel, L) ==
    IF "density" \in sel.keys THEN CeilAbs(DMul(L, Dec(sel.density, 0)))
    ELSE IF "slice" \in sel.keys THEN sel.slice
    ELSE 1

\* the slice count of a call: the count asked for, 1 in place of 0
C30_Count(c) ==
    IF C30_Asked(SelOf(c.rule), LengthOf(c.id)) = 0 THEN 1
    ELSE C30_Asked(SelOf(c.rule), LengthOf(c.id))

\* C30: every call of slice uses the count ceil(|L * density|) of a density
\* rule or the integer of a slice rule (1 when absent), with 1 in place of
\* 0; the count is at least 1, the slice length is L / count, and the call
\* emits at least one element.
C30_SliceCount ==
    \A i \in 1..Len(calls) :
        /\ calls[i].slice_num = C30_Count(calls[i])
        /\ calls[i].slice_num >= 1
        /\ calls[i].slice_len = DDiv(LengthOf(calls[i].id), Dec(calls[i].slice_num, 0))
        /\ calls[i].err = "none"
        /\ C29_Emitted(calls[i]) # {}

\* the same, for the calls that returned
C30_WhenReturned ==
    \A i \in 1..Len(calls) :
        /\ calls[i].slice_num = C30_Count(calls[i])
        /\ calls[i].slice_num >= 1
        /\ calls[i].slice_len = DDiv(LengthOf(calls[i].id), Dec(calls[i].slice_num, 0))
        /\ calls[i].err = "none" => C29_Emitted(calls[i]) # {}

====
